---- MODULE Spec2Model ----
(***************************************************************************)
(* Verification model of the self-optimizing RAG engine:                   *)
(*   - the chat command layer     (src/src/rag/chat/chat_interface.py)     *)
(*   - the RL healing agent       (src/src/rag/agents/healing_agent/)      *)
(*   - the LangGraph workflows    (src/src/rag/agents/langgraph_agent/)    *)
(*   - the ingestion / retrieval tools (src/src/rag/tools/)                *)
(*                                                                         *)
(* Strings are modelled as sequences of tokens: a token is a word without  *)
(* whitespace, ":" or "|", or one of the separators " ", ":" and "|".      *)
(* Floats are modelled in fixed point, Unit standing for 1.0.              *)
(***************************************************************************)
EXTENDS Integers, Sequences, FiniteSets, TLC

VARIABLES
    \* ---- chat layer (ChatRAGInterface) ----
    sessions,        \* ChatRAGInterface.sessions : session id -> ChatSession
    opened_as,       \* history: the chat mode each session was created with
    doc_id_cache,    \* ChatRAGInterface._doc_id_cache (its key set)
    agent_calls,     \* the calls of agent_invoke_fn made by the last process_message
    response,        \* the ChatResponse returned by the last process_message
    processed,       \* history: number of process_message calls so far
    temp_files,      \* the chat_ingest_* files present in ChatMiddleware.temp_dir
    \* ---- RL healing agent (RLHealingAgent) ----
    epsilon,         \* RLHealingAgent.epsilon, in fixed point
    action_history,  \* RLHealingAgent.action_history : action -> statistics
    \* ---- SQLite table rag_history_and_optimization ----
    rag_history,     \* its rows in insertion order; a row's id is its position
    \* ---- LangGraph workflows (LangGraphRAGAgent) ----
    graph,           \* the compiled graph being invoked
    pc,              \* the node that runs next, "END", or "idle" between invocations
    state,           \* the state dict the nodes pass along
    visited,         \* history: the nodes run in this invocation, in order
    failed,          \* history: the node operations that failed in this invocation
    api_result,      \* what ingest_document / ask_question / optimize_system returned
    runs,            \* history: number of invocations begun
    agent_present,   \* LangGraphRAGAgent.rl_healing_agent is not None
    vectordb,        \* ids held by the ChromaDB collection
    document_metadata,      \* doc_ids of the rows of table document_metadata
    chunk_embedding_data,   \* chunk ids of the rows of table chunk_embedding_data
    document_tracking,      \* rows of the tracking table in insertion order
    \* ---- concurrent callers ----
    threads,         \* per caller: the call it is in, where it is, its locals
    clock,           \* what datetime.now() returns
    returned         \* history: the calls that have returned, with their results

chatVars == <<sessions, opened_as, doc_id_cache, agent_calls, response, processed,
              temp_files>>

rlVars == <<epsilon, action_history, rag_history>>

storeVars == <<vectordb, document_metadata, chunk_embedding_data, document_tracking>>

flowVars == <<graph, pc, state, visited, failed, api_result, runs, agent_present,
              vectordb, document_metadata, chunk_embedding_data, document_tracking>>

concVars == <<threads, clock, returned>>

vars == <<sessions, opened_as, doc_id_cache, agent_calls, response, processed, temp_files,
          epsilon, action_history, rag_history,
          graph, pc, state, visited, failed, api_result, runs, agent_present,
          vectordb, document_metadata, chunk_embedding_data, document_tracking,
          threads, clock, returned>>

\* ------------------------------------------------------------------------
\* Bounds
\* ------------------------------------------------------------------------
MaxMsgs == 2
MaxObs == 3
MaxRuns == 1

SessionIds == {1, 2}

\* ------------------------------------------------------------------------
\* Enumerations of chat_interface.py
\* ------------------------------------------------------------------------
ChatMode == {"user", "admin"}

ResponseMode == {"concise", "verbose", "internal"}

ChatCommandType ==
    {"query", "rag_query", "ingest_file", "ingest_text", "ingest_table",
     "heal", "optimize", "check_health", "set_mode", "set_chat_mode",
     "get_status", "help", "clear"}

\* the list of process_message's admin-only check
AdminOnly ==
    {"ingest_file", "ingest_text", "ingest_table", "heal", "optimize", "check_health"}

NoSession == [exists |-> FALSE]

NoDoc == [base |-> <<>>, micro |-> -1, counter |-> -1]

\* ------------------------------------------------------------------------
\* Token strings
\* ------------------------------------------------------------------------
\* str.lower() on one token
Lower(tok) ==
    CASE tok = "ADMIN" -> "admin"
      [] tok = "HELP" -> "help"
      [] tok = "Set_Chat_Mode" -> "set_chat_mode"
      [] tok = "Report.PDF" -> "report.pdf"
      [] OTHER -> tok

LowerSeq(s) == [i \in 1..Len(s) |-> Lower(s[i])]

RECURSIVE LStrip(_)
LStrip(s) == IF s # <<>> /\ Head(s) = " " THEN LStrip(Tail(s)) ELSE s

RECURSIVE RStrip(_)
RStrip(s) ==
    IF s # <<>> /\ s[Len(s)] = " " THEN RStrip(SubSeq(s, 1, Len(s) - 1)) ELSE s

\* str.strip()
Strip(s) == RStrip(LStrip(s))

\* text.lower().startswith(prefix + ":")
StartsWith(s, prefix) ==
    Len(s) >= 2 /\ Lower(s[1]) = prefix /\ s[2] = ":"

\* index of the first occurrence of tok in s, 0 when absent
RECURSIVE IndexOf(_, _, _)
IndexOf(s, tok, i) ==
    IF i > Len(s) THEN 0
    ELSE IF s[i] = tok THEN i
    ELSE IndexOf(s, tok, i + 1)

\* text.split(":", 1)[1]
AfterColon(s) == SubSeq(s, IndexOf(s, ":", 1) + 1, Len(s))

\* s.split("|"): always at least one part, possibly empty
RECURSIVE SplitBar(_)
SplitBar(s) ==
    LET i == IndexOf(s, "|", 1) IN
    IF i = 0 THEN << s >>
    ELSE << SubSeq(s, 1, i - 1) >> \o SplitBar(SubSeq(s, i + 1, Len(s)))

\* ------------------------------------------------------------------------
\* ChatCommand.parse
\* ------------------------------------------------------------------------
Cmd(type, args) == [command_type |-> type, args |-> args, error |-> "none"]

ParseError(msg) == [command_type |-> "none", args |-> <<>>, error |-> msg]

MultiPart == {"ingest_file", "ingest_text", "ingest_table", "heal", "optimize", "check_health"}

parse(raw) ==
    LET text == Strip(raw)
        low == LowerSeq(text)
    IN
    IF low \in {<<"help">>, <<"/help">>, <<"?">>} THEN Cmd("help", <<>>)
    ELSE IF low \in {<<"status">>, <<"/status">>} THEN Cmd("get_status", <<>>)
    ELSE IF low \in {<<"clear">>, <<"/clear">>} THEN Cmd("clear", <<>>)
    ELSE IF StartsWith(text, "set_mode") \/ StartsWith(text, "mode") THEN
        LET mode_str == LowerSeq(Strip(AfterColon(text))) IN
        IF mode_str \notin {<<"concise">>, <<"verbose">>, <<"internal">>}
        THEN ParseError("invalid_response_mode")
        ELSE Cmd("set_mode", << mode_str >>)
    ELSE IF StartsWith(text, "set_chat_mode") \/ StartsWith(text, "chat_mode") THEN
        LET mode_str == LowerSeq(Strip(AfterColon(text))) IN
        IF mode_str \notin {<<"admin">>, <<"user">>}
        THEN ParseError("invalid_chat_mode")
        ELSE Cmd("set_chat_mode", << mode_str >>)
    ELSE IF \E p \in MultiPart : StartsWith(text, p) THEN
        LET p == CHOOSE q \in MultiPart : StartsWith(text, q)
            parts == SplitBar(Strip(AfterColon(text)))
        IN Cmd(p, [i \in 1..Len(parts) |-> Strip(parts[i])])
    ELSE IF StartsWith(text, "rag_query") \/ StartsWith(text, "rag") THEN
        Cmd("rag_query", << Strip(AfterColon(text)) >>)
    ELSE IF StartsWith(text, "query") THEN
        Cmd("query", << Strip(AfterColon(text)) >>)
    ELSE Cmd("rag_query", << text >>)

\* ------------------------------------------------------------------------
\* Inputs of the chat layer
\* ------------------------------------------------------------------------
Messages ==
    { <<"help">>, <<"clear">>,
      <<"set_mode", ":", " ", "verbose">>, <<"mode", ":", "bogus">>,
      <<"set_chat_mode", ":", " ", "admin">>, <<"Set_Chat_Mode", ":", "ADMIN">>,
      <<"set_chat_mode", ":", "user">>, <<"chat_mode", ":", "bogus">>,
      <<"query", ":", " ", "foo">>, <<"foo", " ", "bar">>,
      <<"ingest_file", ":", " ", "Report.PDF">>, <<"ingest_file", ":">>,
      <<"ingest_text", ":", "foo">>,
      <<"ingest_table", ":", "kb", "|", "db">>,
      <<"heal", ":", "doc1", "|", "0.5">>, <<"heal", ":", "doc1">>,
      <<"optimize", ":", "doc1">>,
      <<"check_health", ":", "doc1">> }

\* what agent_invoke_fn can do: return a result reporting success, return a
\* result reporting failure, or raise
AgentOutcomes == {"success", "failure", "raise"}

\* int(time.time() * 1_000_000) % 1_000_000 when a candidate is formed
Micros == {0, 1}

\* datetime.now().strftime("%Y%m%d_%H%M%S") when a doc_id is generated
Timestamps == {0, 1}

\* float(s) succeeds
IsFloat(s) == s \in { <<"0.5">>, <<"1">> }

\* ------------------------------------------------------------------------
\* ChatSession
\* ------------------------------------------------------------------------
EmptyContext ==
    [last_doc_id |-> NoDoc, last_query |-> <<>>, ingested_files |-> <<>>,
     healed_docs |-> <<>>]

NewSession(mode) ==
    [exists |-> TRUE, mode |-> mode, response_mode |-> "concise",
     message_history |-> <<>>, command_history |-> <<>>, context |-> EmptyContext]

is_admin(session) == session.mode = "admin"

add_message(session, msg) ==
    [session EXCEPT !.message_history = Append(@, msg)]

add_command(session, command) ==
    [session EXCEPT !.command_history = Append(@, command)]

set_response_mode(session, mode) == [session EXCEPT !.response_mode = mode]

set_chat_mode(session, mode) == [session EXCEPT !.mode = mode]

\* ------------------------------------------------------------------------
\* ChatRAGInterface._generate_doc_id / _ensure_unique_doc_id
\* ------------------------------------------------------------------------
\* the three re.sub calls and the [:30] cut, on the names the inputs use
Sanitize(name) ==
    CASE name = <<"Report.PDF">> -> "report"
      [] name = <<"report.txt">> -> "report"
      [] name = <<"kb">> -> "kb"
      [] name = <<"user_input">> -> "user_input"
      [] name = <<>> -> ""
      [] OTHER -> "other"

Prefix(source_type) ==
    CASE source_type = "file" -> "file"
      [] source_type = "text" -> "text_user_input"
      [] source_type = "table" -> "table"
      [] source_type = "url" -> "url"
      [] OTHER -> "doc"

DocId(base, micro, counter) == [base |-> base, micro |-> micro, counter |-> counter]

ensure_unique_doc_id_mut(base, cache) == { DocId(base, -1, 0) }

\* the ids the while loop can end with: the base itself when it is free,
\* otherwise base_{microseconds}_{counter} for the first counter whose
\* candidate is free, every earlier candidate having been taken
ensure_unique_doc_id(base, cache) ==
    IF DocId(base, -1, 0) \notin cache THEN { DocId(base, -1, 0) }
    ELSE { d \in { DocId(base, m, c) : m \in Micros, c \in 1..(Cardinality(cache) + 1) } :
             /\ d \notin cache
             /\ \A j \in 1..(d.counter - 1) : \E m \in Micros : DocId(base, m, j) \in cache }

generate_doc_id(source_type, source_name, cache, ts) ==
    ensure_unique_doc_id(<<Prefix(source_type), Sanitize(source_name), ts>>, cache)

\* ------------------------------------------------------------------------
\* ChatRAGInterface._invoke_agent
\* ------------------------------------------------------------------------
AgentReturn(status, error, result, calls, context, cache) ==
    [status |-> status, error |-> error, result |-> result, calls |-> calls,
     context |-> context, cache |-> cache]

AgentCall(sid, session, command, action, doc_id) ==
    [session_id |-> sid, command_type |-> command.command_type,
     chat_mode |-> session.mode, response_mode |-> session.response_mode,
     action |-> action, doc_id |-> doc_id]

SourceType(command_type) ==
    CASE command_type = "ingest_file" -> "file"
      [] command_type = "ingest_text" -> "text"
      [] command_type = "ingest_table" -> "table"
      [] OTHER -> "none"

\* the name _invoke_agent derives the doc_id from
SourceName(command) ==
    IF command.command_type = "ingest_text" THEN <<"user_input">>
    ELSE command.args[1]

\* the doc_ids _invoke_agent can generate for the command (whether one is
\* generated at all is decided by invoke_agent)
DocIdChoices(command, cache, ts) ==
    IF command.command_type \in {"ingest_file", "ingest_text", "ingest_table"}
       /\ Len(command.args) >= 1
    THEN generate_doc_id(SourceType(command.command_type), SourceName(command), cache, ts)
    ELSE { NoDoc }

\* outcome: what agent_invoke_fn does if it is called; auto_doc_id: the
\* doc_id _generate_doc_id returns if it is called
invoke_agent(command, session, sid, outcome, auto_doc_id, cache) ==
    LET ctx == session.context
        t == command.command_type
        raised(calls, c) == AgentReturn("error", "agent_raised", "none", calls, ctx, c)
    IN
    IF t \in {"query", "rag_query"} THEN
        LET calls == << AgentCall(sid, session, command, "query", NoDoc) >> IN
        IF outcome = "raise" THEN raised(calls, cache)
        ELSE AgentReturn("success", "none", outcome, calls, ctx, cache)
    ELSE IF t \in {"ingest_file", "ingest_text", "ingest_table"} THEN
        IF Len(command.args) < 1
        THEN AgentReturn("error", "missing_argument", "none", <<>>, ctx, cache)
        ELSE
            LET action == IF t = "ingest_table" THEN "ingest_table" ELSE "ingest"
                calls == << AgentCall(sid, session, command, action, auto_doc_id) >>
                cache2 == cache \cup { auto_doc_id }
                entry == [type |-> SourceType(t), doc_id |-> auto_doc_id]
            IN
            IF outcome = "raise" THEN raised(calls, cache2)
            ELSE AgentReturn("success", "none", outcome, calls,
                             [ctx EXCEPT !.ingested_files = Append(@, entry),
                                         !.last_doc_id = auto_doc_id],
                             cache2)
    ELSE IF t = "heal" THEN
        IF Len(command.args) < 2
        THEN AgentReturn("error", "missing_argument", "none", <<>>, ctx, cache)
        ELSE IF ~IsFloat(command.args[2])
        THEN AgentReturn("error", "value_error", "none", <<>>, ctx, cache)
        ELSE
            LET calls == << AgentCall(sid, session, command, "heal", NoDoc) >> IN
            IF outcome = "raise" THEN raised(calls, cache)
            ELSE AgentReturn("success", "none", outcome, calls,
                             [ctx EXCEPT !.healed_docs = Append(@, command.args[1])],
                             cache)
    ELSE IF t \in {"optimize", "check_health"} THEN
        IF Len(command.args) < 1
        THEN AgentReturn("error", "missing_argument", "none", <<>>, ctx, cache)
        ELSE
            LET calls == << AgentCall(sid, session, command, t, NoDoc) >> IN
            IF outcome = "raise" THEN raised(calls, cache)
            ELSE AgentReturn("success", "none", outcome, calls, ctx, cache)
    ELSE AgentReturn("error", "unknown_command", "none", <<>>, ctx, cache)

\* ------------------------------------------------------------------------
\* ChatRAGInterface.create_session / process_message
\* ------------------------------------------------------------------------
ChatResponse(status, error, result, command_type, sid) ==
    [status |-> status, error |-> error, result |-> result,
     command_type |-> command_type, session_id |-> sid]

NoResponse == ChatResponse("pending", "none", "none", "none", 0)

\* ChatCommand.parse on every input text
Parsed == [raw \in Messages |-> parse(raw)]

\* the commands process_message hands to _invoke_agent
Delegated ==
    {"query", "rag_query", "ingest_file", "ingest_text", "ingest_table",
     "heal", "optimize", "check_health"}

create_session(sid, mode) ==
    /\ ~sessions[sid].exists
    /\ sessions' = [sessions EXCEPT ![sid] = NewSession(mode)]
    /\ opened_as' = [opened_as EXCEPT ![sid] = mode]
    /\ UNCHANGED <<doc_id_cache, agent_calls, response, processed>>

\* process_message, SET_CHAT_MODE: a non-admin session asks for admin mode
elevation_refused_mut(session, command) == FALSE

elevation_refused(session, command) ==
    ~is_admin(session) /\ Lower(command.args[1][1]) = "admin"

\* process_message, "Admin-only commands": the command is refused
admin_only_refused_mut(session, command) ==
    ~is_admin(session) /\ command.command_type \in {"ingest_file", "ingest_text", "ingest_table"}

admin_only_refused(session, command) ==
    ~is_admin(session) /\ command.command_type \in AdminOnly

\* the session and the cache after the command has been handled, together
\* with the response and the calls made (the part of process_message that
\* follows session.add_command)
handle_command(raw, sid, session, command, outcome, auto_doc_id) ==
    LET t == command.command_type
        done(sess, status, error, result, calls, cache) ==
            [session |-> sess, response |-> ChatResponse(status, error, result, t, sid),
             calls |-> calls, cache |-> cache]
    IN
    IF t \in {"help", "get_status"} THEN
        done(session, "success", "none", "none", <<>>, doc_id_cache)
    ELSE IF t = "set_mode" THEN
        done(set_response_mode(session, command.args[1][1]), "success", "none", "none",
             <<>>, doc_id_cache)
    ELSE IF t = "set_chat_mode" /\ elevation_refused(session, command) THEN
        done(session, "error", "permission_denied", "none", <<>>, doc_id_cache)
    ELSE IF t = "set_chat_mode" THEN
        done(set_chat_mode(session, command.args[1][1]), "success", "none", "none",
             <<>>, doc_id_cache)
    ELSE IF t = "clear" THEN
        done([session EXCEPT !.message_history = <<>>, !.command_history = <<>>,
                             !.context = EmptyContext],
             "success", "none", "none", <<>>, doc_id_cache)
    ELSE IF admin_only_refused(session, command) THEN
        done(session, "error", "permission_denied", "none", <<>>, doc_id_cache)
    ELSE
        LET r == invoke_agent(command, session, sid, outcome, auto_doc_id, doc_id_cache)
            ctx == [r.context EXCEPT !.last_query = raw]
        IN done([session EXCEPT !.context = ctx],
                IF r.status = "success" THEN "success" ELSE "error",
                r.error, r.result, r.calls, r.cache)

\* process_message, `if command.parse_error:`
parse_error_mut(command) == FALSE

parse_error(command) == command.error # "none"

process_message(raw, sid) ==
    LET session == sessions[sid] IN
    IF ~session.exists THEN
        /\ response' = ChatResponse("error", "session_not_found", "none", "none", 0)
        /\ agent_calls' = <<>>
        /\ processed' = processed + 1
        /\ UNCHANGED <<sessions, opened_as, doc_id_cache>>
    ELSE
        LET command == Parsed[raw] IN
        IF parse_error(command) THEN
            /\ response' = ChatResponse("error", command.error, "none", "none", sid)
            /\ agent_calls' = <<>>
            /\ processed' = processed + 1
            /\ UNCHANGED <<sessions, opened_as, doc_id_cache>>
        ELSE
            LET msg == [content |-> raw, mode |-> session.mode,
                        response_mode |-> session.response_mode,
                        command_type |-> command.command_type]
                s1 == add_command(add_message(session, msg),
                                  [command_type |-> command.command_type,
                                   args |-> command.args])
                delegated == command.command_type \in Delegated
            IN
            \E outcome \in (IF delegated THEN AgentOutcomes ELSE {"success"}) :
            \E ts \in (IF delegated THEN Timestamps ELSE {0}) :
            \E auto_doc_id \in DocIdChoices(command, doc_id_cache, ts) :
                LET h == handle_command(raw, sid, s1, command, outcome, auto_doc_id) IN
                /\ sessions' = [sessions EXCEPT ![sid] = h.session]
                /\ doc_id_cache' = h.cache
                /\ agent_calls' = h.calls
                /\ response' = h.response
                /\ processed' = processed + 1
                /\ UNCHANGED opened_as

ChatInit ==
    /\ sessions = [sid \in SessionIds |-> NoSession]
    /\ opened_as = [sid \in SessionIds |-> "none"]
    /\ doc_id_cache = {}
    /\ agent_calls = <<>>
    /\ response = NoResponse
    /\ processed = 0
    /\ temp_files = {}

\* uuid4 yields an id no session has; ids are interchangeable, so the least
\* unused one stands for it
CreateSession ==
    \E sid \in SessionIds, mode \in ChatMode :
        /\ \A other \in SessionIds : other < sid => sessions[other].exists
        /\ create_session(sid, mode)

ProcessMessage ==
    /\ processed < MaxMsgs
    /\ \E raw \in Messages, sid \in SessionIds : process_message(raw, sid)


\* ------------------------------------------------------------------------
\* Concurrent callers
\* ------------------------------------------------------------------------
ThreadIds == {"t1", "t2"}

NoLocal == [none |-> TRUE]

IdleThread == [pc |-> "idle", call |-> "none", local |-> NoLocal]

ConcIdle ==
    /\ threads = [t \in ThreadIds |-> IdleThread]
    /\ clock = 0
    /\ returned = <<>>

\* a call has returned
Returned(t, call, result) == [thread |-> t, call |-> call, result |-> result]

\* ------------------------------------------------------------------------
\* Fixed-point arithmetic standing for Python floats
\* ------------------------------------------------------------------------
\* 1.0
Unit == 1000000

\* a / b rounded to the nearest representable value
RoundDiv(a, b) == (2 * a + b) \div (2 * b)

Max(a, b) == IF a >= b THEN a ELSE b

Min(a, b) == IF a <= b THEN a ELSE b

\* ------------------------------------------------------------------------
\* RLHealingAgent (rl_healing_agent.py)
\* ------------------------------------------------------------------------
Actions == <<"SKIP", "OPTIMIZE", "REINDEX", "RE_EMBED">>

ActionSet == {Actions[i] : i \in 1..Len(Actions)}

\* the floor of observe_reward's decay, 0.05
EpsilonFloor == 50000

\* the decay factor 0.995, as DecayNum / DecayDen
DecayNum == 995

DecayDen == 1000

\* __init__: initial_epsilon is stored as given
InitialEpsilons == {0, 10000, 50000, 50200, 300000, 1000000}

\* the rewards observed: 0.2, -0.1, 0
Rewards == {200000, -100000, 0}

NewStats == [count |-> 0, total_reward |-> 0, avg_reward |-> 0]

RLInit(initial_epsilon) ==
    /\ epsilon = initial_epsilon
    /\ action_history = [a \in ActionSet |-> NewStats]
    /\ rag_history = <<>>

\* "Decay epsilon": max(0.05, epsilon * 0.995)
decay(eps) == Max(EpsilonFloor, RoundDiv(eps * DecayNum, DecayDen))

update_stats_mut(stats, actual_reward) ==
    [count |-> stats.count + 1, total_reward |-> actual_reward,
     avg_reward |-> RoundDiv(actual_reward, stats.count + 1)]

\* "Update statistics" of observe_reward
update_stats(stats, actual_reward) ==
    LET count == stats.count + 1
        total == stats.total_reward + actual_reward
    IN [count |-> count, total_reward |-> total, avg_reward |-> RoundDiv(total, count)]

RECURSIVE MaxHistoryId(_)
MaxHistoryId(n) ==
    IF n = 0 THEN 0 ELSE Max(rag_history[n].history_id, MaxHistoryId(n - 1))

next_history_id_mut == MaxHistoryId(Len(rag_history))

\* the history_id SQLite gives the next inserted row (cursor.lastrowid): one
\* more than the largest id in the table
next_history_id == MaxHistoryId(Len(rag_history)) + 1

\* a row of rag_history_and_optimization as an INSERT made now writes it
Row(event_type, target_doc_id, action_taken, reward_signal, metrics, context, agent_id, session_id) ==
    [history_id |-> next_history_id, timestamp |-> clock,
     event_type |-> event_type, target_doc_id |-> target_doc_id,
     action_taken |-> action_taken, reward_signal |-> reward_signal,
     metrics |-> metrics, context |-> context,
     agent_id |-> agent_id, session_id |-> session_id]

\* the row _log_rl_decision inserts
HealRow(action_name, reward, history, eps, session_id) ==
    Row("HEAL", "", action_name, reward, [action |-> action_name],
        [reward_achieved |-> reward, q_values |-> history, epsilon |-> eps],
        "rl_healing_agent", session_id)

\* db_ok: the INSERT of _log_rl_decision succeeds (a failure is printed and
\* swallowed)
observe_reward(action_name, actual_reward, session_id, db_ok) ==
    LET history == [action_history EXCEPT ![action_name] = update_stats(@, actual_reward)]
        eps == decay(epsilon)
    IN
    /\ action_history' = history
    /\ epsilon' = eps
    /\ rag_history' = IF db_ok
                 THEN Append(rag_history, HealRow(action_name, actual_reward, history, eps, session_id))
                 ELSE rag_history

RECURSIVE SumCounts(_)
SumCounts(i) ==
    IF i = 0 THEN 0 ELSE action_history[Actions[i]].count + SumCounts(i - 1)

\* get_learning_stats: total_decisions
total_decisions == SumCounts(Len(Actions))

ObserveReward ==
    /\ total_decisions < MaxObs
    /\ \E a \in ActionSet, r \in Rewards, db_ok \in BOOLEAN :
           /\ observe_reward(a, r, "session_123", db_ok)
           /\ returned' = Append(returned,
                                 Returned("caller", "observe_reward",
                                          [action_name |-> a, actual_reward |-> r]))
    /\ UNCHANGED <<chatVars, flowVars, threads, clock>>

\* ------------------------------------------------------------------------
\* RLHealingAgent: recommendation
\* ------------------------------------------------------------------------
RLState(quality, cost, reindex) ==
    [quality_score |-> quality, avg_token_cost |-> cost, reindex_count |-> reindex]

\* the QUERY rows of a document, as _build_state_from_db selects them
QueryRows(doc_id) ==
    {i \in 1..Len(rag_history) :
        rag_history[i].event_type = "QUERY" /\ rag_history[i].target_doc_id = doc_id}

RECURSIVE SumCost(_)
SumCost(rows) ==
    IF rows = {} THEN 0
    ELSE LET i == CHOOSE j \in rows : TRUE
         IN rag_history[i].metrics.cost_tokens + SumCost(rows \ {i})

\* db_ok: the three SELECTs succeed; chunk rows are written with
\* reindex_count 0 and nothing in the engine changes it
build_state_from_db(doc_id, current_quality, db_ok) ==
    LET rows == QueryRows(doc_id)
        avg_cost == IF rows = {} THEN 0 ELSE SumCost(rows) \div Cardinality(rows)
    IN
    IF db_ok
    THEN RLState(current_quality, IF avg_cost = 0 THEN 1000 ELSE avg_cost, 0)
    ELSE RLState(current_quality, 1000, 0)

\* "Adjust based on state" of _get_best_action
adjustment(action, s) ==
    CASE action = "SKIP" ->
            IF s.quality_score > (75 * Unit) \div 100 THEN Unit ELSE -Unit
      [] action = "OPTIMIZE" ->
            IF s.quality_score < (6 * Unit) \div 10 /\ s.avg_token_cost < 2000
            THEN (15 * Unit) \div 10
            ELSE IF s.quality_score < (6 * Unit) \div 10 THEN (8 * Unit) \div 10
            ELSE -(5 * Unit) \div 10
      [] action = "REINDEX" ->
            IF s.reindex_count < 3
            THEN (IF s.quality_score < (65 * Unit) \div 100 THEN Unit ELSE -(5 * Unit) \div 10)
            ELSE -Unit
      [] action = "RE_EMBED" ->
            IF s.quality_score < (5 * Unit) \div 10 THEN 2 * Unit
            ELSE IF s.avg_token_cost < 1000 THEN (5 * Unit) \div 10
            ELSE -(15 * Unit) \div 10

\* the score _get_best_action gives an action
action_score(action, s) ==
    IF action_history[action].count = 0
    THEN (5 * Unit) \div 10
    ELSE action_history[action].avg_reward + adjustment(action, s)

\* max(action_scores, key=action_scores.get): the first action, in insertion
\* order, that has the highest score
get_best_action(s) ==
    LET score(i) == action_score(Actions[i], s)
        best == CHOOSE i \in 1..Len(Actions) :
                    /\ \A j \in 1..Len(Actions) : score(j) <= score(i)
                    /\ \A j \in 1..(i - 1) : score(j) < score(i)
    IN Actions[best]

\* u is the value of np.random.random(), choice that of np.random.choice
decide_action(s, u, choice) ==
    IF u < epsilon THEN choice ELSE get_best_action(s)

generate_action_details(action, s) ==
    CASE action = "SKIP" ->
            [action |-> "SKIP", estimated_improvement |-> 0, estimated_cost |-> 0,
             confidence |-> IF s.quality_score > (75 * Unit) \div 100
                            THEN (95 * Unit) \div 100 ELSE (5 * Unit) \div 10]
      [] action = "OPTIMIZE" ->
            IF s.quality_score < (6 * Unit) \div 10
            THEN [action |-> "OPTIMIZE", estimated_improvement |-> (15 * Unit) \div 100,
                  estimated_cost |-> 500, confidence |-> (82 * Unit) \div 100]
            ELSE [action |-> "OPTIMIZE", estimated_improvement |-> (8 * Unit) \div 100,
                  estimated_cost |-> 500, confidence |-> (70 * Unit) \div 100]
      [] action = "REINDEX" ->
            [action |-> "REINDEX",
             estimated_improvement |-> IF s.reindex_count < 2 THEN (12 * Unit) \div 100
                                       ELSE (5 * Unit) \div 100,
             estimated_cost |-> 300,
             confidence |-> IF s.reindex_count < 2 THEN (75 * Unit) \div 100
                            ELSE (55 * Unit) \div 100]
      [] action = "RE_EMBED" ->
            [action |-> "RE_EMBED", estimated_improvement |-> (25 * Unit) \div 100,
             estimated_cost |-> 800, confidence |-> (68 * Unit) \div 100]

recommend_healing(doc_id, current_quality, u, choice, db_ok) ==
    LET s == build_state_from_db(doc_id, current_quality, db_ok)
        action == generate_action_details(decide_action(s, u, choice), s)
    IN [doc_id |-> doc_id, current_quality |-> current_quality,
        recommended_action |-> action.action,
        expected_improvement |-> action.estimated_improvement,
        estimated_cost |-> action.estimated_cost,
        confidence |-> action.confidence]

\* values np.random.random() can return, in fixed point
RandomDraws == {0, 250000, 500000, 999999}

\* ------------------------------------------------------------------------
\* The workflow state dict of LangGraphRAGAgent
\* ------------------------------------------------------------------------
\* the parsed JSON a tool returned: its success flag and the number of items
\* (chunks saved, context items) it carries
ToolResult(success, n) == [success |-> success, n |-> n]

NoTool == ToolResult(FALSE, 0)

NoText == [format |-> "raw", chunks |-> <<>>]

NoChunks == [success |-> FALSE, n |-> 0, chunks |-> <<>>]

NoMeta == [success |-> FALSE, fallback |-> FALSE]

NoAnswer == [body |-> "", filtered |-> FALSE]

NoRecommendation ==
    [doc_id |-> "", current_quality |-> 0, recommended_action |-> "",
     expected_improvement |-> 0, estimated_cost |-> 0, confidence |-> 0]

\* a dict with no key; a field's value is meaningful only while its name is
\* in keys
EmptyState ==
    [keys |-> {}, errors |-> <<>>, status |-> "", doc_id |-> "", response_mode |-> "",
     text |-> NoText, markdown_text |-> NoText, rbac_tags |-> <<>>, metadata |-> NoMeta,
     chunks |-> NoChunks, save_result |-> NoTool, tracking_result |-> NoTool,
     context |-> NoTool, retrieval_quality |-> 0, reranked_context |-> NoTool,
     should_optimize |-> FALSE, rl_action |-> "", rl_recommendation |-> NoRecommendation,
     optimization_result |-> "", healing_logged_id |-> 0, answer |-> NoAnswer,
     query_logged_id |-> 0, is_response_safe |-> FALSE, guardrail_checks |-> "",
     traceability |-> NoTool, config_result |-> ""]

\* state.get(k, default)
get(st, k, default) == IF k \in st.keys THEN st[k] ELSE default

\* one entry of state["errors"]: the message a node appends
Err(node, detail) == [node |-> node, detail |-> detail]

\* state["errors"] = state.get("errors", []) + [message]
append_error(st, node, detail) ==
    [st EXCEPT !.errors = Append(get(st, "errors", <<>>), Err(node, detail)),
               !.keys = @ \cup {"errors"}]

\* ------------------------------------------------------------------------
\* Inputs of the workflows
\* ------------------------------------------------------------------------
\* a document text, by the chunks the splitter cuts it into
Texts ==
    { [format |-> "raw", chunks |-> <<>>],
      [format |-> "raw", chunks |-> <<"c1", "c2">>] }

IngestDocIds == {"d1"}

\* ask_question's doc_id; "" stands for None
QueryDocIds == {"", "d0"}

\* the words of the question asked
Question == <<"what", "is", "x">>

\* number of chunks the vector store holds when the engine starts
StoreSizes == {0, 2, 3, 6}

ChunkIds(doc_id, n) == {[doc_id |-> doc_id, index |-> i] : i \in 0..(n - 1)}

\* what a tool call can do: return success, return {"success": false}, raise
ToolOutcomes == {"ok", "unsuccessful", "raise"}

\* extract_metadata_tool answers its LLM failure with fallback metadata
MetadataOutcomes == {"ok", "fallback", "raise"}

\* update_metadata_tracking_tool: row inserted, DocumentTrackingModel not
\* importable, sqlite failure, raise
TrackingOutcomes == {"ok", "import_error", "unsuccessful", "raise"}

\* the SQLite part of save_to_vectordb_tool: all rows written, failure before
\* the document row, failure after it
SqlOutcomes == {"ok", "fail_document", "fail_chunks"}

\* CustomGuardrails.process_request: success true, success false, raise
GuardrailOutcomes == {"safe", "unsafe", "raise"}

\* RAGHistoryModel.log_*: row inserted, or -1 returned
LogOutcomes == {"ok", "failed"}

FailureKinds == {"unsuccessful", "raise", "fallback"}

\* history: the failure of a node's operation
Fail(node, o) == IF o \in FailureKinds THEN {[node |-> node, kind |-> o]} ELSE {}

\* ------------------------------------------------------------------------
\* Compiled graphs
\* ------------------------------------------------------------------------
ingestion_edges_mut ==
    { <<"START", "convert_markdown">>,
      <<"convert_markdown", "classify_document">>,
      <<"classify_document", "extract_metadata">>,
      <<"extract_metadata", "save_vectordb">>,
      <<"save_vectordb", "chunk_document">>,
      <<"chunk_document", "update_tracking">>,
      <<"update_tracking", "END">> }

ingestion_edges ==
    { <<"START", "convert_markdown">>,
      <<"convert_markdown", "classify_document">>,
      <<"classify_document", "extract_metadata">>,
      <<"extract_metadata", "chunk_document">>,
      <<"chunk_document", "save_vectordb">>,
      <<"save_vectordb", "update_tracking">>,
      <<"update_tracking", "END">> }

retrieval_edges ==
    { <<"START", "retrieve_context">>,
      <<"retrieve_context", "rerank_context">>,
      <<"rerank_context", "check_optimization">>,
      <<"optimize_context", "answer_question">>,
      <<"answer_question", "validate_guardrails">>,
      <<"validate_guardrails", "traceability">>,
      <<"traceability", "END">> }

\* add_conditional_edges("check_optimization", route_to_optimization, ...)
retrieval_conditional_edges ==
    { <<"check_optimization", "optimize_context">>,
      <<"check_optimization", "answer_question">> }

optimization_edges_mut ==
    { <<"START", "optimize">>,
      <<"optimize", "apply_config">> }

optimization_edges ==
    { <<"START", "optimize">>,
      <<"optimize", "apply_config">>,
      <<"apply_config", "END">> }

Graphs == {"ingestion", "retrieval", "optimization"}

Edges(g) ==
    CASE g = "ingestion" -> ingestion_edges
      [] g = "retrieval" -> retrieval_edges
      [] g = "optimization" -> optimization_edges
      [] OTHER -> {}

ConditionalEdges(g) == IF g = "retrieval" THEN retrieval_conditional_edges ELSE {}

route_to_optimization_mut(st) == "optimize_context"

route_to_optimization(st) ==
    IF get(st, "should_optimize", FALSE) THEN "optimize_context" ELSE "answer_question"

\* the nodes the graph runs after node n has returned state st
Successors(g, n, st) ==
    IF \E e \in ConditionalEdges(g) : e[1] = n
    THEN {e[2] : e \in {x \in ConditionalEdges(g) :
                            x[1] = n /\ x[2] = route_to_optimization(st)}}
    ELSE {e[2] : e \in {x \in Edges(g) : x[1] = n}}

\* ------------------------------------------------------------------------
\* Nodes of the ingestion graph
\* ------------------------------------------------------------------------
\* convert_to_markdown_tool normalises the document to markdown
Markdown(t) == [format |-> "markdown", chunks |-> t.chunks]

convert_markdown_node(st, o) ==
    IF o = "ok"
    THEN [st EXCEPT !.markdown_text = Markdown(get(st, "text", NoText)),
                    !.text = Markdown(get(st, "text", NoText)),
                    !.status = "markdown_converted",
                    !.keys = @ \cup {"markdown_text", "text", "status"}]
    ELSE append_error([st EXCEPT !.markdown_text = get(st, "text", NoText),
                                 !.keys = @ \cup {"markdown_text"}],
                      "convert_markdown", o)

classify_document_node(st, o) ==
    IF o = "ok"
    THEN [st EXCEPT !.rbac_tags = <<"rbac:dept:role">>,
                    !.status = "document_classified",
                    !.keys = @ \cup {"rbac_tags", "status"}]
    ELSE append_error([st EXCEPT !.rbac_tags = <<"rbac:generic:viewer">>,
                                 !.keys = @ \cup {"rbac_tags"}],
                      "classify_document", o)

extract_metadata_node(st, o) ==
    IF o = "raise"
    THEN append_error(st, "extract_metadata", o)
    ELSE [st EXCEPT !.metadata = [success |-> TRUE, fallback |-> (o = "fallback")],
                    !.status = "metadata_extracted",
                    !.keys = @ \cup {"metadata", "status"}]

\* chunk_document_tool on state["text"]
chunk_document_tool(text, o) ==
    IF o = "ok"
    THEN [success |-> TRUE, n |-> Len(text.chunks), chunks |-> text.chunks]
    ELSE NoChunks

chunk_document_node(st, o) ==
    IF o = "raise"
    THEN append_error(st, "chunk_document", o)
    ELSE [st EXCEPT !.chunks = chunk_document_tool(st.text, o),
                    !.status = "chunks_created",
                    !.keys = @ \cup {"chunks", "status"}]

\* what the save stage comes to: state["chunks"] of a state without that key
\* raises KeyError; save_to_vectordb_tool refuses an unsuccessful or empty
\* chunk list; otherwise the embedding and vector-store calls decide
save_outcome(st, o) ==
    IF "chunks" \notin st.keys THEN "raise"
    ELSE IF o = "raise" THEN "raise"
    ELSE IF ~st.chunks.success \/ st.chunks.n = 0 THEN "unsuccessful"
    ELSE o

save_to_vectordb_tool_mut(st, o, sql) ==
    IF save_outcome(st, o) = "ok" /\ sql = "ok" THEN ToolResult(TRUE, st.chunks.n) ELSE NoTool

\* the JSON save_to_vectordb_tool returns: chunks_saved is len(chunk_ids)
\* whatever became of the SQLite part, whose exception is printed
save_to_vectordb_tool(st, o, sql) ==
    IF save_outcome(st, o) = "ok" THEN ToolResult(TRUE, st.chunks.n) ELSE NoTool

\* step 5 of save_to_vectordb_tool runs after collection.add: the document
\* row is created first
document_row_written(saved, sql) == saved /\ sql # "fail_document"

chunk_rows_written_mut(saved, sql) == saved /\ sql # "fail_chunks"

\* the chunk rows are created after the document row, in the same try block
chunk_rows_written(saved, sql) == saved /\ sql = "ok"

save_vectordb_node(st, o, sql) ==
    IF save_outcome(st, o) = "raise"
    THEN append_error(st, "save_vectordb", "raise")
    ELSE [st EXCEPT !.save_result = save_to_vectordb_tool(st, o, sql),
                    !.status = "saved_to_vectordb",
                    !.keys = @ \cup {"save_result", "status"}]

\* the row update_metadata_tracking_tool inserts
TrackingRow(doc_id, chunks_saved) ==
    [document_id |-> doc_id, chunks_saved |-> chunks_saved,
     ingestion_status |-> "COMPLETED"]

update_tracking_node(st, o) ==
    IF o = "raise"
    THEN append_error(st, "update_tracking", o)
    ELSE [st EXCEPT !.tracking_result = ToolResult(o # "unsuccessful", 0),
                    !.status = "completed",
                    !.keys = @ \cup {"tracking_result", "status"}]

\* ------------------------------------------------------------------------
\* Nodes of the retrieval graph
\* ------------------------------------------------------------------------
\* the k of retrieve_context_node
TopK == 5

\* len(context) / 5.0
Quality(n) == (n * Unit) \div TopK

retrieve_context_node(st, o, found) ==
    IF o = "raise"
    THEN [append_error(st, "retrieve_context", o) EXCEPT
              !.retrieval_quality = 0, !.keys = @ \cup {"retrieval_quality"}]
    ELSE [st EXCEPT !.context = IF o = "ok" THEN ToolResult(TRUE, found) ELSE NoTool,
                    !.status = "context_retrieved",
                    !.retrieval_quality = IF o = "ok" THEN Quality(found) ELSE 0,
                    !.keys = @ \cup {"context", "status", "retrieval_quality"}]

\* a tool that touches its service only when it is given items cannot report
\* failure on an empty list
items_outcome(n, o) == IF n = 0 /\ o = "unsuccessful" THEN "ok" ELSE o

rerank_context_node(st, o) ==
    LET n == get(st, "context", NoTool).n
        eff == items_outcome(n, o)
    IN
    IF eff = "raise"
    THEN append_error(st, "rerank_context", o)
    ELSE [st EXCEPT !.reranked_context = IF eff = "ok" THEN ToolResult(TRUE, n) ELSE NoTool,
                    !.status = "context_reranked",
                    !.keys = @ \cup {"reranked_context", "status"}]

fallback_rule_mut(quality, num_results) ==
    quality <= (6 * Unit) \div 10 \/ num_results < 3

\* "Simple heuristic when RL agent not available"
fallback_rule(quality, num_results) ==
    quality < (6 * Unit) \div 10 \/ num_results < 3

check_optimization_needed(st, agent, u, choice, db_ok) ==
    LET num_results == get(st, "reranked_context", NoTool).n
        quality == Min(Unit, Quality(num_results))
        recommendation ==
            recommend_healing(get(st, "doc_id", "unknown"), quality, u, choice, db_ok)
    IN
    IF agent /\ get(st, "doc_id", "") # ""
    THEN [st EXCEPT !.retrieval_quality = quality,
                    !.rl_recommendation = recommendation,
                    !.should_optimize = (recommendation.recommended_action # "SKIP"),
                    !.rl_action = recommendation.recommended_action,
                    !.keys = @ \cup {"retrieval_quality", "rl_recommendation",
                                     "should_optimize", "rl_action"}]
    ELSE [st EXCEPT !.retrieval_quality = quality,
                    !.should_optimize = fallback_rule(quality, num_results),
                    !.keys = @ \cup {"retrieval_quality", "should_optimize"}]

\* "Log healing action if RL agent made a recommendation"
logs_healing(st) ==
    /\ get(st, "should_optimize", FALSE)
    /\ get(st, "rl_action", "") \notin {"", "SKIP"}

\* the doc_id the nodes log under: the state's, else the first reranked
\* item's, else "unknown"
doc_id_to_log(st, first_doc) ==
    IF get(st, "doc_id", "") # "" THEN st.doc_id
    ELSE IF get(st, "reranked_context", NoTool).n > 0 THEN first_doc
    ELSE "unknown"

\* RAGHistoryModel.log_healing as optimize_context_node calls it
HealingRow(st, first_doc) ==
    Row("HEAL", doc_id_to_log(st, first_doc), get(st, "rl_action", "OPTIMIZE"),
        (12 * Unit) \div 100,
        [strategy |-> get(st, "rl_action", "OPTIMIZE"),
         before_quality |-> get(st, "retrieval_quality", 0),
         after_quality |-> Min(Unit, get(st, "retrieval_quality", 0) + (15 * Unit) \div 100),
         improvement_delta |-> (15 * Unit) \div 100],
        [expected_reward |-> get(st, "rl_recommendation", NoRecommendation).expected_improvement],
        "langgraph_agent", "ask_question")

\* RAGHistoryModel.log_query as answer_question_node calls it
QueryRow(st, first_doc) ==
    Row("QUERY", doc_id_to_log(st, first_doc), "", 0,
        [avg_accuracy |-> get(st, "retrieval_quality", (7 * Unit) \div 10),
         cost_tokens |-> Len(Question) * 10,
         sources_count |-> get(st, "reranked_context", NoTool).n,
         response_mode |-> get(st, "response_mode", "concise")],
        [sources |-> get(st, "reranked_context", NoTool).n],
        "langgraph_agent", "ask_question")

\* RAGHistoryModel.log_guardrail_check as validate_response_guardrails_node
\* calls it
GuardrailRow(st, first_doc) ==
    Row("GUARDRAIL", doc_id_to_log(st, first_doc), "", 0,
        [is_safe |-> st.is_response_safe], [checks |-> st.guardrail_checks],
        "langgraph_agent", "ask_question")

\* lastrowid of an insert, -1 when the insert failed
LoggedId(log) == IF log = "ok" THEN next_history_id ELSE -1

optimize_context_node(st, o, log) ==
    IF o = "raise"
    THEN [append_error(st, "optimize_context", o) EXCEPT
              !.optimization_result = "error", !.keys = @ \cup {"optimization_result"}]
    ELSE LET st1 == [st EXCEPT !.optimization_result = "suggested_params",
                               !.status = "optimized",
                               !.keys = @ \cup {"optimization_result", "status"}]
         IN IF logs_healing(st1)
            THEN [st1 EXCEPT !.healing_logged_id = LoggedId(log),
                             !.keys = @ \cup {"healing_logged_id"}]
            ELSE st1

answer_question_node(st, o, log) ==
    LET n == get(st, "reranked_context", NoTool).n
        eff == items_outcome(n, o)
    IN
    IF eff = "raise"
    THEN [append_error(st, "answer_question", o) EXCEPT
              !.answer = [body |-> "Failed to generate answer", filtered |-> FALSE],
              !.keys = @ \cup {"answer"}]
    ELSE [st EXCEPT !.answer = [body |-> IF eff = "unsuccessful" THEN "error"
                                         ELSE IF n = 0 THEN "No context available"
                                         ELSE "answer",
                                filtered |-> FALSE],
                    !.status = "answer_generated",
                    !.query_logged_id = LoggedId(log),
                    !.keys = @ \cup {"answer", "status", "query_logged_id"}]

validate_response_guardrails_node(st, o) ==
    IF get(st, "response_mode", "concise") = "verbose"
    THEN [st EXCEPT !.guardrail_checks = "skipped",
                    !.is_response_safe = TRUE,
                    !.keys = @ \cup {"guardrail_checks", "is_response_safe"}]
    ELSE IF o = "raise"
    THEN [append_error(st, "validate_guardrails", o) EXCEPT
              !.is_response_safe = FALSE, !.keys = @ \cup {"is_response_safe"}]
    ELSE [st EXCEPT !.guardrail_checks = o,
                    !.answer = [body |-> get(st, "answer", NoAnswer).body, filtered |-> TRUE],
                    !.is_response_safe = (o = "safe"),
                    !.keys = @ \cup {"guardrail_checks", "answer", "is_response_safe"}]

\* the guardrail node inserts a row when it has validated
logs_guardrail(st, o) ==
    get(st, "response_mode", "concise") # "verbose" /\ o # "raise"

traceability_node(st, o) ==
    LET n == get(st, "reranked_context", NoTool).n
        eff == items_outcome(n, o)
    IN
    IF eff = "raise"
    THEN append_error(st, "traceability", o)
    ELSE [st EXCEPT !.traceability = IF eff = "ok" THEN ToolResult(TRUE, n) ELSE NoTool,
                    !.status = "completed",
                    !.keys = @ \cup {"traceability", "status"}]

\* ------------------------------------------------------------------------
\* Nodes of the optimization graph
\* ------------------------------------------------------------------------
optimize_node(st, o) ==
    IF o = "raise"
    THEN append_error(st, "optimize", o)
    ELSE [st EXCEPT !.optimization_result = o,
                    !.status = "optimization_complete",
                    !.keys = @ \cup {"optimization_result", "status"}]

apply_config_node(st, o) ==
    IF o = "raise"
    THEN append_error(st, "apply_config", o)
    ELSE [st EXCEPT !.config_result = o,
                    !.status = "completed",
                    !.keys = @ \cup {"config_result", "status"}]

\* ------------------------------------------------------------------------
\* ingest_document, ask_question, optimize_system
\* ------------------------------------------------------------------------
NoResult ==
    [api |-> "none", response_mode |-> "", success |-> FALSE, errors |-> <<>>,
     doc_id |-> "", chunks_count |-> 0, chunks_saved |-> 0, answer |-> NoAnswer,
     guardrails_applied |-> FALSE, fields |-> {}]

success_mut(errors) == TRUE

\* len(result.get("errors", [])) == 0
success(errors) == Len(errors) = 0

ingest_initial_state(text, doc_id) ==
    [EmptyState EXCEPT !.text = text, !.doc_id = doc_id, !.status = "started",
                       !.keys = {"text", "doc_id", "errors", "status"}]

ingest_document_result(st) ==
    [NoResult EXCEPT !.api = "ingest_document",
                     !.success = success(get(st, "errors", <<>>)),
                     !.doc_id = st.doc_id,
                     !.chunks_count = get(st, "chunks", NoChunks).n,
                     !.chunks_saved = get(st, "save_result", NoTool).n,
                     !.errors = get(st, "errors", <<>>),
                     !.fields = {"success", "doc_id", "chunks_count", "chunks_saved",
                                 "metadata", "errors"}]

ask_initial_state(doc_id, response_mode) ==
    [EmptyState EXCEPT !.doc_id = doc_id, !.response_mode = response_mode,
                       !.status = "started",
                       !.keys = {"question", "doc_id", "session_id", "response_mode",
                                 "performance_history", "errors", "status"}]

\* _apply_guardrails_validation; gv tells whether process_request returns or
\* raises
apply_guardrails_validation(answer, response_mode, gv) ==
    IF response_mode = "verbose" THEN [guardrails_applied |-> FALSE, answer |-> answer]
    ELSE IF gv = "ok"
    THEN [guardrails_applied |-> TRUE, answer |-> [body |-> answer.body, filtered |-> TRUE]]
    ELSE [guardrails_applied |-> FALSE, answer |-> answer]

\* the keys of the dict ask_question returns in each response mode
ask_question_fields(mode) ==
    CASE mode = "concise" ->
            {"success", "question", "answer", "session_id", "guardrails_applied", "errors"}
      [] mode = "internal" ->
            {"success", "answer", "quality_score", "sources_count", "source_docs",
             "metadata", "guardrails_applied", "errors"}
      [] OTHER ->
            {"success", "question", "answer", "sources", "sources_count", "traceability",
             "retrieval_quality", "optimization_applied", "optimization_reason",
             "rl_action", "rl_recommendation", "optimization_result",
             "execution_time_ms", "session_id", "visualization_data",
             "guardrails_applied", "errors"}

ask_question_result(st, gv) ==
    LET mode == st.response_mode
        validation == apply_guardrails_validation(get(st, "answer", NoAnswer), mode, gv)
    IN
    IF mode \in {"concise", "internal"}
    THEN [NoResult EXCEPT !.api = "ask_question", !.response_mode = mode,
                          !.success = success(get(st, "errors", <<>>)),
                          !.answer = validation.answer,
                          !.guardrails_applied = validation.guardrails_applied,
                          !.errors = get(st, "errors", <<>>),
                          !.fields = ask_question_fields(mode)]
    ELSE [NoResult EXCEPT !.api = "ask_question", !.response_mode = mode,
                          !.success = success(get(st, "errors", <<>>)),
                          !.answer = get(st, "answer", NoAnswer),
                          !.guardrails_applied = FALSE,
                          !.errors = get(st, "errors", <<>>),
                          !.fields = ask_question_fields(mode)]

optimize_initial_state ==
    [EmptyState EXCEPT !.status = "started",
                       !.keys = {"performance_history", "config_updates", "errors", "status"}]

optimize_system_result(st) ==
    [NoResult EXCEPT !.api = "optimize_system",
                     !.success = success(get(st, "errors", <<>>)),
                     !.errors = get(st, "errors", <<>>),
                     !.fields = {"success", "optimization", "config_applied", "errors"}]

\* ------------------------------------------------------------------------
\* Actions of the workflows
\* ------------------------------------------------------------------------
FlowIdle ==
    /\ graph = "none"
    /\ pc = "idle"
    /\ state = EmptyState
    /\ visited = <<>>
    /\ failed = {}
    /\ api_result = NoResult
    /\ runs = 0
    /\ agent_present = TRUE
    /\ vectordb = {}
    /\ document_metadata = {}
    /\ chunk_embedding_data = {}
    /\ document_tracking = <<>>

\* the engine starts on a store that earlier ingestions of document d0 have
\* filled; _init_rl_agent leaves the agent None when its database is missing
FlowInit ==
    /\ graph = "none"
    /\ pc = "idle"
    /\ state = EmptyState
    /\ visited = <<>>
    /\ failed = {}
    /\ api_result = NoResult
    /\ runs = 0
    /\ agent_present \in BOOLEAN
    /\ \E n \in StoreSizes :
           /\ vectordb = ChunkIds("d0", n)
           /\ document_metadata = (IF n > 0 THEN {"d0"} ELSE {})
           /\ chunk_embedding_data = ChunkIds("d0", n)
           /\ document_tracking = (IF n > 0 THEN <<TrackingRow("d0", n)>> ELSE <<>>)

\* graph.invoke(initial_state)
Begin(g, st) ==
    /\ pc = "idle"
    /\ runs < MaxRuns
    /\ graph' = g
    /\ state' = st
    /\ visited' = <<>>
    /\ failed' = {}
    /\ api_result' = NoResult
    /\ runs' = runs + 1
    /\ pc' \in Successors(g, "START", st)
    /\ UNCHANGED <<chatVars, rlVars, agent_present, storeVars, concVars>>

\* one node has run and the graph has picked its successor
Step(node, st, fails) ==
    /\ state' = st
    /\ visited' = Append(visited, node)
    /\ failed' = failed \cup fails
    /\ pc' \in Successors(graph, node, st)
    /\ UNCHANGED <<chatVars, epsilon, action_history, graph, api_result, runs, agent_present,
                   concVars>>

Return(g, result) ==
    /\ graph = g
    /\ pc = "END"
    /\ api_result' = result
    /\ pc' = "idle"
    /\ UNCHANGED <<chatVars, rlVars, graph, state, visited, failed, runs, agent_present,
                   storeVars, concVars>>

IngestDocument ==
    \E text \in Texts, doc_id \in IngestDocIds :
        Begin("ingestion", ingest_initial_state(text, doc_id))

ConvertMarkdown ==
    /\ graph = "ingestion" /\ pc = "convert_markdown"
    /\ \E o \in ToolOutcomes :
           Step("convert_markdown", convert_markdown_node(state, o), Fail("convert_markdown", o))
    /\ UNCHANGED <<rag_history, storeVars>>

ClassifyDocument ==
    /\ graph = "ingestion" /\ pc = "classify_document"
    /\ \E o \in ToolOutcomes :
           Step("classify_document", classify_document_node(state, o),
                Fail("classify_document", o))
    /\ UNCHANGED <<rag_history, storeVars>>

ExtractMetadata ==
    /\ graph = "ingestion" /\ pc = "extract_metadata"
    /\ \E o \in MetadataOutcomes :
           Step("extract_metadata", extract_metadata_node(state, o),
                Fail("extract_metadata", o))
    /\ UNCHANGED <<rag_history, storeVars>>

ChunkDocument ==
    /\ graph = "ingestion" /\ pc = "chunk_document"
    /\ \E o \in ToolOutcomes :
           Step("chunk_document", chunk_document_node(state, o), Fail("chunk_document", o))
    /\ UNCHANGED <<rag_history, storeVars>>

SaveVectordb ==
    /\ graph = "ingestion" /\ pc = "save_vectordb"
    /\ \E o \in ToolOutcomes, sql \in SqlOutcomes :
           LET saved == save_outcome(state, o) = "ok"
               ids == ChunkIds(state.doc_id, state.chunks.n)
           IN
           /\ Step("save_vectordb", save_vectordb_node(state, o, sql),
                   Fail("save_vectordb", save_outcome(state, o)))
           /\ vectordb' = IF saved THEN vectordb \cup ids ELSE vectordb
           /\ document_metadata' =
                  IF document_row_written(saved, sql)
                  THEN document_metadata \cup {state.doc_id} ELSE document_metadata
           /\ chunk_embedding_data' =
                  IF chunk_rows_written(saved, sql)
                  THEN chunk_embedding_data \cup ids ELSE chunk_embedding_data
    /\ UNCHANGED <<rag_history, document_tracking>>

UpdateTracking ==
    /\ graph = "ingestion" /\ pc = "update_tracking"
    /\ \E o \in TrackingOutcomes :
           /\ Step("update_tracking", update_tracking_node(state, o),
                   Fail("update_tracking", o))
           /\ document_tracking' =
                  IF o = "ok"
                  THEN Append(document_tracking,
                              TrackingRow(state.doc_id, get(state, "save_result", NoTool).n))
                  ELSE document_tracking
    /\ UNCHANGED <<rag_history, vectordb, document_metadata, chunk_embedding_data>>

IngestReturn == Return("ingestion", ingest_document_result(state))

AskQuestion ==
    \E doc_id \in QueryDocIds, mode \in ResponseMode :
        Begin("retrieval", ask_initial_state(doc_id, mode))

\* the document of the best-ranked chunk
FirstDoc == IF vectordb = {} THEN "unknown" ELSE (CHOOSE c \in vectordb : TRUE).doc_id

RetrieveContext ==
    /\ graph = "retrieval" /\ pc = "retrieve_context"
    /\ \E o \in ToolOutcomes :
           Step("retrieve_context",
                retrieve_context_node(state, o, Min(TopK, Cardinality(vectordb))),
                Fail("retrieve_context", o))
    /\ UNCHANGED <<rag_history, storeVars>>

RerankContext ==
    /\ graph = "retrieval" /\ pc = "rerank_context"
    /\ \E o \in ToolOutcomes :
           Step("rerank_context", rerank_context_node(state, o),
                Fail("rerank_context", items_outcome(get(state, "context", NoTool).n, o)))
    /\ UNCHANGED <<rag_history, storeVars>>

\* check_optimization_needed feeding a reward back to the agent
CheckOptimization_mut ==
    /\ graph = "retrieval" /\ pc = "check_optimization"
    /\ \E u \in RandomDraws, choice \in ActionSet, db_ok \in BOOLEAN :
           LET st == check_optimization_needed(state, agent_present, u, choice, db_ok) IN
           /\ state' = st
           /\ visited' = Append(visited, "check_optimization")
           /\ pc' \in Successors(graph, "check_optimization", st)
           /\ epsilon' = IF agent_present THEN decay(epsilon) ELSE epsilon
    /\ UNCHANGED <<chatVars, action_history, rag_history, graph, failed, api_result, runs,
                   agent_present, storeVars, concVars>>

CheckOptimization ==
    /\ graph = "retrieval" /\ pc = "check_optimization"
    /\ \E u \in RandomDraws, choice \in ActionSet, db_ok \in BOOLEAN :
           Step("check_optimization",
                check_optimization_needed(state, agent_present, u, choice, db_ok), {})
    /\ UNCHANGED <<rag_history, storeVars>>

OptimizeContext ==
    /\ graph = "retrieval" /\ pc = "optimize_context"
    /\ \E o \in {"ok", "raise"}, log \in LogOutcomes :
           /\ Step("optimize_context", optimize_context_node(state, o, log),
                   Fail("optimize_context", o))
           /\ rag_history' =
                  IF o = "ok" /\ logs_healing(state) /\ log = "ok"
                  THEN Append(rag_history, HealingRow(state, FirstDoc))
                  ELSE rag_history
    /\ UNCHANGED storeVars

AnswerQuestion ==
    /\ graph = "retrieval" /\ pc = "answer_question"
    /\ \E o \in ToolOutcomes, log \in LogOutcomes :
           /\ Step("answer_question", answer_question_node(state, o, log),
                   Fail("answer_question",
                        items_outcome(get(state, "reranked_context", NoTool).n, o)))
           /\ rag_history' =
                  IF o # "raise" /\ log = "ok"
                  THEN Append(rag_history, QueryRow(state, FirstDoc))
                  ELSE rag_history
    /\ UNCHANGED storeVars

ValidateGuardrails ==
    /\ graph = "retrieval" /\ pc = "validate_guardrails"
    /\ \E o \in GuardrailOutcomes, log \in LogOutcomes :
           /\ Step("validate_guardrails", validate_response_guardrails_node(state, o),
                   IF get(state, "response_mode", "concise") = "verbose"
                   THEN {} ELSE Fail("validate_guardrails", o))
           /\ rag_history' =
                  IF logs_guardrail(state, o) /\ log = "ok"
                  THEN Append(rag_history,
                              GuardrailRow(validate_response_guardrails_node(state, o), FirstDoc))
                  ELSE rag_history
    /\ UNCHANGED storeVars

Traceability ==
    /\ graph = "retrieval" /\ pc = "traceability"
    /\ \E o \in ToolOutcomes :
           Step("traceability", traceability_node(state, o),
                Fail("traceability",
                     items_outcome(get(state, "reranked_context", NoTool).n, o)))
    /\ UNCHANGED <<rag_history, storeVars>>

AskReturn ==
    \E gv \in {"ok", "raise"} : Return("retrieval", ask_question_result(state, gv))

OptimizeSystem == Begin("optimization", optimize_initial_state)

Optimize ==
    /\ graph = "optimization" /\ pc = "optimize"
    /\ \E o \in ToolOutcomes : Step("optimize", optimize_node(state, o), Fail("optimize", o))
    /\ UNCHANGED <<rag_history, storeVars>>

ApplyConfig ==
    /\ graph = "optimization" /\ pc = "apply_config"
    /\ \E o \in ToolOutcomes :
           Step("apply_config", apply_config_node(state, o), Fail("apply_config", o))
    /\ UNCHANGED <<rag_history, storeVars>>

OptimizeReturn == Return("optimization", optimize_system_result(state))

\* the steps the graph executor takes on its own once an invocation has begun
RunNode ==
    \/ ConvertMarkdown \/ ClassifyDocument \/ ExtractMetadata
    \/ ChunkDocument \/ SaveVectordb \/ UpdateTracking
    \/ RetrieveContext \/ RerankContext \/ CheckOptimization \/ OptimizeContext
    \/ AnswerQuestion \/ ValidateGuardrails \/ Traceability
    \/ Optimize \/ ApplyConfig

\* ------------------------------------------------------------------------
\* RAGHistoryModel (rag_history_model.py)
\* ------------------------------------------------------------------------
MaxEvents == 3
MaxClock == 2
MaxCalls == 3

LogMethods == {"log_query", "log_healing", "log_synthetic_test"}

LogSessions == {"s1", "s2"}

\* the event_type each method writes
EventType(method) ==
    CASE method = "log_query" -> "QUERY"
      [] method = "log_healing" -> "HEAL"
      [] method = "log_synthetic_test" -> "SYNTHETIC_TEST"

\* the row the method's INSERT writes; now_iso was taken when the call began
LogRow(method, now_iso, target_doc_id, session_id) ==
    [Row(EventType(method), target_doc_id,
         IF method = "log_healing" THEN "OPTIMIZE" ELSE "", 0,
         NoLocal, NoLocal, "langgraph_agent", session_id)
     EXCEPT !.timestamp = now_iso]

\* now_iso = datetime.now().isoformat()
LogBegin(t) ==
    /\ threads[t].pc = "idle"
    /\ Len(returned) + Cardinality({u \in ThreadIds : threads[u].pc # "idle"}) < MaxEvents
    /\ \E method \in LogMethods, session_id \in LogSessions :
           threads' = [threads EXCEPT ![t] =
                           [pc |-> "insert", call |-> method,
                            local |-> [now_iso |-> clock, target_doc_id |-> "d0",
                                       session_id |-> session_id]]]
    /\ UNCHANGED <<chatVars, rlVars, flowVars, clock, returned>>

\* self.execute(INSERT ...); self.conn.commit(); return self.cursor.lastrowid,
\* or -1 from the except branch
LogInsert(t) ==
    /\ threads[t].pc = "insert"
    /\ \E ok \in BOOLEAN :
           LET l == threads[t].local
               row == LogRow(threads[t].call, l.now_iso, l.target_doc_id, l.session_id)
           IN
           /\ rag_history' = IF ok THEN Append(rag_history, row) ELSE rag_history
           /\ returned' = Append(returned,
                                 Returned(t, threads[t].call,
                                          IF ok THEN row.history_id ELSE -1))
    /\ threads' = [threads EXCEPT ![t] = IdleThread]
    /\ UNCHANGED <<chatVars, epsilon, action_history, flowVars, clock>>

\* time passes
Tick ==
    /\ clock < MaxClock
    /\ clock' = clock + 1
    /\ UNCHANGED <<chatVars, rlVars, flowVars, threads, returned>>

\* the rows of a session
SessionRows(session_id) ==
    {i \in 1..Len(rag_history) : rag_history[i].session_id = session_id}

\* ORDER BY timestamp ASC: the rows in rising timestamp, rows of one timestamp
\* in rowid order, as the table scan hands them to the sort
RECURSIVE OrderByTimestamp(_)
OrderByTimestamp(rows) ==
    IF rows = {} THEN <<>>
    ELSE LET first == CHOOSE i \in rows :
                          \A j \in rows :
                              \/ rag_history[i].timestamp < rag_history[j].timestamp
                              \/ /\ rag_history[i].timestamp = rag_history[j].timestamp
                                 /\ rag_history[i].history_id <= rag_history[j].history_id
         IN <<rag_history[first]>> \o OrderByTimestamp(rows \ {first})

get_session_history(session_id) == OrderByTimestamp(SessionRows(session_id))

\* ------------------------------------------------------------------------
\* RLHealingAgent.observe_reward called from parallel invocations
\* ------------------------------------------------------------------------
\* the statements of observe_reward, one load or store of the shared
\* action_history at a time: stats['count'] += 1 and
\* stats['total_reward'] += actual_reward each load, add and store; no lock
\* is taken
ObserveStep(t) ==
    LET th == threads[t]
        l == th.local
        goto(next, local) == threads' = [threads EXCEPT ![t] = [th EXCEPT !.pc = next,
                                                                         !.local = local]]
    IN
    \/ /\ th.pc = "idle"
       /\ Len(returned) + Cardinality({u \in ThreadIds : threads[u].pc # "idle"}) < MaxCalls
       /\ \E a \in ActionSet, r \in Rewards :
              threads' = [threads EXCEPT ![t] =
                              [pc |-> "load_count", call |-> "observe_reward",
                               local |-> [action_name |-> a, actual_reward |-> r,
                                          count |-> 0, total_reward |-> 0]]]
       /\ UNCHANGED <<rlVars, returned>>
    \/ /\ th.pc = "load_count"
       /\ goto("store_count", [l EXCEPT !.count = action_history[l.action_name].count])
       /\ UNCHANGED <<rlVars, returned>>
    \/ /\ th.pc = "store_count"
       /\ action_history' = [action_history EXCEPT ![l.action_name].count = l.count + 1]
       /\ goto("load_total", l)
       /\ UNCHANGED <<epsilon, rag_history, returned>>
    \/ /\ th.pc = "load_total"
       /\ goto("store_total",
               [l EXCEPT !.total_reward = action_history[l.action_name].total_reward])
       /\ UNCHANGED <<rlVars, returned>>
    \/ /\ th.pc = "store_total"
       /\ action_history' = [action_history EXCEPT ![l.action_name].total_reward =
                                                       l.total_reward + l.actual_reward]
       /\ goto("avg_reward", l)
       /\ UNCHANGED <<epsilon, rag_history, returned>>
    \/ /\ th.pc = "avg_reward"
       /\ action_history' = [action_history EXCEPT ![l.action_name].avg_reward =
                                 RoundDiv(action_history[l.action_name].total_reward,
                                          action_history[l.action_name].count)]
       /\ goto("decay", l)
       /\ UNCHANGED <<epsilon, rag_history, returned>>
    \/ /\ th.pc = "decay"
       /\ epsilon' = decay(epsilon)
       /\ \E db_ok \in BOOLEAN :
              rag_history' = IF db_ok
                             THEN Append(rag_history,
                                         HealRow(l.action_name, l.actual_reward,
                                                 action_history, decay(epsilon), "session_123"))
                             ELSE rag_history
       /\ returned' = Append(returned,
                             Returned(t, "observe_reward",
                                      [action_name |-> l.action_name,
                                       actual_reward |-> l.actual_reward]))
       /\ threads' = [threads EXCEPT ![t] = IdleThread]
       /\ UNCHANGED action_history

ObserveRewardConcurrently ==
    /\ \E t \in ThreadIds : ObserveStep(t)
    /\ UNCHANGED <<chatVars, flowVars, clock>>

\* ------------------------------------------------------------------------
\* ChatRAGInterface.create_session / get_session called concurrently
\* ------------------------------------------------------------------------
uuid4_mut == SessionIds

\* str(uuid.uuid4()) in ChatSession.__init__: an id that no session of the
\* map and no session under construction has
uuid4 ==
    {sid \in SessionIds :
        /\ ~sessions[sid].exists
        /\ \A u \in ThreadIds :
               threads[u].call = "create_session" => threads[u].local.session_id # sid}

\* create_session: session = ChatSession(...), then
\* self.sessions[session.session_id] = session; get_session:
\* self.sessions.get(session_id). Neither takes a lock; each touches the map
\* in one dict operation
SessionStep(t) ==
    LET th == threads[t]
        l == th.local
        calls == Len(returned) + Cardinality({u \in ThreadIds : threads[u].pc # "idle"})
    IN
    \/ /\ th.pc = "idle"
       /\ calls < MaxCalls
       /\ \E mode \in ChatMode, sid \in uuid4 :
              threads' = [threads EXCEPT ![t] =
                              [pc |-> "store", call |-> "create_session",
                               local |-> [session_id |-> sid, session |-> NewSession(mode)]]]
       /\ UNCHANGED <<sessions, opened_as, returned>>
    \/ /\ th.pc = "store"
       /\ sessions' = [sessions EXCEPT ![l.session_id] = l.session]
       /\ opened_as' = [opened_as EXCEPT ![l.session_id] = l.session.mode]
       /\ returned' = Append(returned, Returned(t, "create_session", l))
       /\ threads' = [threads EXCEPT ![t] = IdleThread]
    \/ /\ th.pc = "idle"
       /\ calls < MaxCalls
       /\ \E sid \in SessionIds :
              returned' = Append(returned,
                                 Returned(t, "get_session",
                                          [session_id |-> sid, session |-> sessions[sid]]))
       /\ UNCHANGED <<sessions, opened_as, threads>>

SessionsConcurrently ==
    /\ \E t \in ThreadIds : SessionStep(t)
    /\ UNCHANGED <<doc_id_cache, agent_calls, response, processed, temp_files,
                   rlVars, flowVars, clock>>

\* ------------------------------------------------------------------------
\* ChatCommandRouter.route_command (chat_middleware.py)
\* ------------------------------------------------------------------------
\* command types handed to route_command; "ingest" is none it knows
RouteCommandTypes == {"ingest_text", "ingest", "query"}

\* state.get("action", "query") of the state handed in
StateActions == {"ingest", "query"}

\* the document keys of the state: document_path, else document_text, else
\* neither
DocumentKeys == {"document_path", "document_text", "none"}

\* the enhancement at the head of route_command: the state's action becomes
\* the command type, or "query"; an unknown command type leaves it alone
routed_action(command_type, action) ==
    IF command_type \in {"ingest_file", "ingest_text", "ingest_table"} THEN command_type
    ELSE IF command_type \in {"query", "rag_query"} THEN "query"
    ELSE IF command_type \in {"heal", "optimize", "check_health"} THEN command_type
    ELSE action

\* chat_ingest_{session_id}_{datetime.now().timestamp()}.txt
TempFile(session_id, now) == [session_id |-> session_id, timestamp |-> now]

NoFile == TempFile("", -1)

\* process_state writes a temp file when the action is "ingest" and the
\* state has document_text but no document_path
creates_temp_file(action, document) == action = "ingest" /\ document = "document_text"

\* the head of route_command up to the try block: enhancement and
\* middleware.process_state. write_ok: f.write(state["document_text"])
\* returns; when it raises, the file open() created stays, "_temp_file" is
\* not set and the exception leaves route_command
RouteProcessState(t) ==
    /\ threads[t].pc = "idle"
    /\ Len(returned) + Cardinality({u \in ThreadIds : threads[u].pc # "idle"}) < MaxCalls
    /\ \E command_type \in RouteCommandTypes, action \in StateActions,
          document \in DocumentKeys, session_id \in LogSessions, write_ok \in BOOLEAN :
           LET creates == creates_temp_file(routed_action(command_type, action), document)
               file == TempFile(session_id, clock)
           IN
           /\ temp_files' = IF creates THEN temp_files \cup {file} ELSE temp_files
           /\ IF creates /\ ~write_ok
              THEN /\ returned' = Append(returned,
                                         Returned(t, "route_command",
                                                  [status |-> "raise", workflow |-> "not_run",
                                                   temp_file |-> file]))
                   /\ UNCHANGED threads
              ELSE /\ threads' = [threads EXCEPT ![t] =
                                      [pc |-> "invoke", call |-> "route_command",
                                       local |-> [command_type |-> command_type,
                                                  temp_file |-> IF creates THEN file ELSE NoFile,
                                                  workflow |-> "not_run"]]]
                   /\ UNCHANGED returned
    /\ UNCHANGED <<sessions, opened_as, doc_id_cache, agent_calls, response, processed,
                   rlVars, flowVars, clock>>

\* result = self.agent_invoke_fn(state): the workflow succeeds, returns a
\* result holding errors, or raises
WorkflowOutcomes == {"success", "error", "raise"}

RouteInvoke(t) ==
    /\ threads[t].pc = "invoke"
    /\ \E o \in WorkflowOutcomes :
           threads' = [threads EXCEPT ![t].pc = "cleanup", ![t].local.workflow = o]
    /\ UNCHANGED <<chatVars, rlVars, flowVars, clock, returned>>

\* cleanup_temp_files: os.remove(state["_temp_file"]) when the key is there;
\* an exception of os.remove is printed. rm_ok: os.remove succeeds on a file
\* that exists
cleanup_temp_files(file, rm_ok) ==
    IF file # NoFile /\ rm_ok THEN temp_files \ {file} ELSE temp_files

\* the finally block of route_command, and its return
RouteCleanup(t) ==
    /\ threads[t].pc = "cleanup"
    /\ \E rm_ok \in BOOLEAN :
           temp_files' = cleanup_temp_files(threads[t].local.temp_file, rm_ok)
    /\ returned' = Append(returned,
                          Returned(t, "route_command",
                                   [status |-> IF threads[t].local.workflow = "raise"
                                               THEN "error" ELSE "success",
                                    workflow |-> threads[t].local.workflow,
                                    temp_file |-> threads[t].local.temp_file]))
    /\ threads' = [threads EXCEPT ![t] = IdleThread]
    /\ UNCHANGED <<sessions, opened_as, doc_id_cache, agent_calls, response, processed,
                   rlVars, flowVars, clock>>

\* ------------------------------------------------------------------------
\* GuardrailsService (guardrails_service.py)
\* ------------------------------------------------------------------------
\* class RiskLevel(Enum): member name -> value
RiskLevel ==
    [SAFE |-> "safe", LOW |-> "low", MEDIUM |-> "medium", HIGH |-> "high",
     CRITICAL |-> "critical"]

\* the place in the alphabet of the first letter of each value: Python orders
\* str by code point, and the five values differ in their first letter
FirstLetter == [safe |-> 19, low |-> 12, medium |-> 13, high |-> 8, critical |-> 3]

\* violation.risk_level.value > max_risk.value, a comparison of two str
value_gt(a, b) == FirstLetter[a] > FirstLetter[b]

\* what a check returns: (valid, violation); risk is the violation's
\* risk_level, "NONE" for no violation; raised: the check raised instead
CheckResult(valid, risk) == [valid |-> valid, risk |-> risk, raised |-> FALSE]

Passed == CheckResult(TRUE, "NONE")

CheckRaised == [valid |-> FALSE, risk |-> "NONE", raised |-> TRUE]

\* what llm_service.generate_response gives each semantic check: JSON saying
\* one thing or another, text json.loads rejects, an exception of the call
HallucinationOutputs ==
    {"clean", "hallucinating_few", "hallucinating_many", "unparseable", "error"}

AccuracyOutputs == {"clean", "low_accuracy", "unparseable", "error"}

ToneOutputs == {"clean", "inappropriate", "harmful", "unparseable"}

CompletenessOutputs == {"clean", "incomplete", "unparseable"}

\* share of the response's words found in the context, in percent
Coverages == {20, 50}

\* _simple_hallucination_check: covered < 0.3
simple_hallucination_check(covered) ==
    IF covered < 30 THEN CheckResult(FALSE, "MEDIUM") ELSE Passed

check_hallucination(has_llm, llm, covered) ==
    IF ~has_llm THEN Passed
    ELSE CASE llm = "hallucinating_few" -> CheckResult(FALSE, "MEDIUM")
           [] llm = "hallucinating_many" -> CheckResult(FALSE, "HIGH")
           [] llm = "unparseable" -> simple_hallucination_check(covered)
           [] OTHER -> Passed

\* the patterns of check_security with the risk level each appends
SecurityPatterns ==
    [email |-> "HIGH", phone |-> "HIGH", ssn |-> "CRITICAL", credit_card |-> "CRITICAL",
     secret |-> "CRITICAL", sql |-> "MEDIUM"]

\* found: the patterns that match. max(v[1] for v in violations_found)
\* compares RiskLevel members, which define no order: with one finding it
\* returns it, with more it raises TypeError
check_security(found) ==
    IF found = {} THEN Passed
    ELSE IF Cardinality(found) = 1
    THEN CheckResult(FALSE, SecurityPatterns[CHOOSE f \in found : TRUE])
    ELSE CheckRaised

check_factual_accuracy(has_llm, llm) ==
    IF has_llm /\ llm = "low_accuracy" THEN CheckResult(FALSE, "MEDIUM") ELSE Passed

check_tone(has_llm, llm) ==
    IF ~has_llm THEN Passed
    ELSE CASE llm = "inappropriate" -> CheckResult(FALSE, "MEDIUM")
           [] llm = "harmful" -> CheckResult(FALSE, "HIGH")
           [] OTHER -> Passed

check_completeness(has_llm, llm) ==
    IF has_llm /\ llm = "incomplete" THEN CheckResult(FALSE, "LOW") ELSE Passed

CheckTypes == <<"hallucination", "security", "accuracy", "tone", "completeness">>

\* max_risk after the first n checks of validate_response
RECURSIVE max_risk_after(_, _)
max_risk_after(checks, n) ==
    IF n = 0 THEN "SAFE"
    ELSE LET before == max_risk_after(checks, n - 1)
             risk == checks[CheckTypes[n]].risk
         IN IF risk # "NONE" /\ value_gt(RiskLevel[risk], RiskLevel[before])
            THEN risk ELSE before

\* validate_response with every check type; the exception of a check leaves
\* validate_response
validate_response(has_llm, llm, covered, found) ==
    LET checks == [hallucination |-> check_hallucination(has_llm, llm.hallucination, covered),
                   security |-> check_security(found),
                   accuracy |-> check_factual_accuracy(has_llm, llm.accuracy),
                   tone |-> check_tone(has_llm, llm.tone),
                   completeness |-> check_completeness(has_llm, llm.completeness)]
        raised == \E i \in 1..Len(CheckTypes) : checks[CheckTypes[i]].raised
    IN [raised |-> raised,
        is_safe |-> ~raised /\ \A i \in 1..Len(CheckTypes) : checks[CheckTypes[i]].valid,
        max_risk_level |-> IF raised THEN "" ELSE RiskLevel[max_risk_after(checks, Len(CheckTypes))],
        checks |-> checks, has_llm |-> has_llm, llm |-> llm]

\* one response is validated
ValidateResponse ==
    /\ returned = <<>>
    /\ \E has_llm \in BOOLEAN, h \in HallucinationOutputs, a \in AccuracyOutputs,
          tn \in ToneOutputs, c \in CompletenessOutputs, covered \in Coverages,
          found \in SUBSET (DOMAIN SecurityPatterns) :
           returned' = <<Returned("caller", "validate_response",
                                  validate_response(has_llm,
                                                    [hallucination |-> h, accuracy |-> a,
                                                     tone |-> tn, completeness |-> c],
                                                    covered, found))>>
    /\ UNCHANGED <<chatVars, rlVars, flowVars, threads, clock>>

\* ------------------------------------------------------------------------
\* The convergence scenario: a fixed reward for each action
\* ------------------------------------------------------------------------
ScenarioObservations == 100

\* 0 for SKIP, 0.2 for OPTIMIZE, -0.05 for REINDEX, -0.1 for RE_EMBED
ScenarioReward(action) ==
    CASE action = "SKIP" -> 0
      [] action = "OPTIMIZE" -> (2 * Unit) \div 10
      [] action = "REINDEX" -> -(5 * Unit) \div 100
      [] action = "RE_EMBED" -> -(1 * Unit) \div 10

\* the state (quality=0.55, avg_cost=1500, reindex_count=0)
ScenarioState == RLState((55 * Unit) \div 100, 1500, 0)

\* observe_reward with the scenario's reward for the action taken; the
\* agent's database has no history table here, so _log_rl_decision prints
\* its warning and the log stays as it is (the statistics do not read it)
ObserveScenario ==
    /\ total_decisions < ScenarioObservations
    /\ \E a \in ActionSet : observe_reward(a, ScenarioReward(a), "session_123", FALSE)
    /\ UNCHANGED <<chatVars, flowVars, concVars>>

\* ------------------------------------------------------------------------
\* Specifications
\* ------------------------------------------------------------------------
\* the initial_epsilon of RLHealingAgent(db_path)
DefaultEpsilon == 300000

RLIdle == RLInit(DefaultEpsilon)

\* the chat layer
Init == ChatInit /\ RLIdle /\ FlowIdle /\ ConcIdle

Next ==
    \/ CreateSession /\ UNCHANGED <<temp_files, rlVars, flowVars, concVars>>
    \/ ProcessMessage /\ UNCHANGED <<temp_files, rlVars, flowVars, concVars>>

Spec == Init /\ [][Next]_vars

\* the healing agent, created with any exploration rate
SpecRLInit == ChatInit /\ FlowIdle /\ ConcIdle /\ \E e \in InitialEpsilons : RLInit(e)

SpecRLNext == ObserveReward

SpecRL == SpecRLInit /\ [][SpecRLNext]_vars

\* the workflows of LangGraphRAGAgent
SpecFlowInit == ChatInit /\ RLIdle /\ FlowInit /\ ConcIdle

SpecFlowNext ==
    \/ IngestDocument \/ AskQuestion \/ OptimizeSystem
    \/ RunNode
    \/ IngestReturn \/ AskReturn \/ OptimizeReturn

SpecFlow == SpecFlowInit /\ [][SpecFlowNext]_vars

\* graph.invoke runs the next node until END is reached
SpecFlowFair == SpecFlow /\ WF_vars(RunNode)

\* the healing agent in use: rewards are observed between the retrieval
\* invocations of the engine that consults it (observations that no
\* invocation follows are left out)
MaxFeedback == 1

\* the rewards fed back: 0.2
FeedbackRewards == {200000}

ObserveFeedback ==
    /\ pc = "idle" /\ runs < MaxRuns
    /\ total_decisions < MaxFeedback
    /\ \E a \in ActionSet, r \in FeedbackRewards :
           /\ observe_reward(a, r, "session_123", TRUE)
           /\ returned' = Append(returned,
                                 Returned("caller", "observe_reward",
                                          [action_name |-> a, actual_reward |-> r]))
    /\ UNCHANGED <<chatVars, flowVars, threads, clock>>

RetrievalNode ==
    \/ RetrieveContext \/ RerankContext \/ CheckOptimization \/ OptimizeContext
    \/ AnswerQuestion \/ ValidateGuardrails \/ Traceability

SpecHealingNext ==
    \/ ObserveFeedback
    \/ AskQuestion
    \/ RetrievalNode
    \/ AskReturn

SpecHealing == SpecFlowInit /\ [][SpecHealingNext]_vars

\* writers of the history log
SpecLogNext ==
    \/ \E t \in ThreadIds : LogBegin(t)
    \/ \E t \in ThreadIds : LogInsert(t)
    \/ Tick

SpecLog == Init /\ [][SpecLogNext]_vars

\* callers of the command router
SpecRouterNext ==
    \/ \E t \in ThreadIds : RouteProcessState(t)
    \/ \E t \in ThreadIds : RouteInvoke(t)
    \/ \E t \in ThreadIds : RouteCleanup(t)
    \/ Tick

SpecRouter == Init /\ [][SpecRouterNext]_vars

\* the guardrails service validating a response
SpecGuardrails == Init /\ [][ValidateResponse]_vars

\* the convergence scenario, from the default exploration rate
SpecRLScenarioInit == ChatInit /\ FlowIdle /\ ConcIdle /\ RLInit(DefaultEpsilon)

SpecRLScenario == SpecRLScenarioInit /\ [][ObserveScenario]_vars

\* parallel invocations reporting rewards to one healing agent
SpecRLConc == Init /\ [][ObserveRewardConcurrently]_vars

\* concurrent callers of the session map
SpecSessions == Init /\ [][SessionsConcurrently]_vars

\* ------------------------------------------------------------------------
\* Properties of the chat layer
\* ------------------------------------------------------------------------
\* the last entry of a session's histories (the message and the command the
\* last accepted process_message of that session added)
LastMsg(sid) == sessions[sid].message_history[Len(sessions[sid].message_history)]

LastCmd(sid) == sessions[sid].command_history[Len(sessions[sid].command_history)]

\* the last response answers an accepted command of session sid
Answered(sid) ==
    /\ response.session_id = sid
    /\ response.command_type \notin {"none", "clear"}

\* C1: a session created in USER chat mode never holds ADMIN chat mode, and
\* a `set_chat_mode: admin` message of such a session is answered with an
\* error.
C1_NoElevation ==
    \A sid \in SessionIds :
        opened_as[sid] = "user" =>
            /\ sessions[sid].mode = "user"
            /\ ( /\ Answered(sid)
                 /\ response.command_type = "set_chat_mode"
                 /\ LastCmd(sid).args = << <<"admin">> >> )
               => (response.status = "error" /\ response.error = "permission_denied")

\* a USER session has asked for admin mode, after other messages
C1_Witness ==
    \E sid \in SessionIds :
        /\ opened_as[sid] = "user"
        /\ Answered(sid)
        /\ response.command_type = "set_chat_mode"
        /\ LastCmd(sid).args = << <<"admin">> >>
        /\ Len(sessions[sid].message_history) >= 2
        /\ response.status = "error"

\* C2: every call of the agent for an admin-only command is made for a
\* session in ADMIN mode; an admin-only command issued in USER mode makes no
\* call of the agent and is answered with permission denied.
C2_OnlyPermittedExecuted ==
    /\ \A i \in 1..Len(agent_calls) :
           agent_calls[i].command_type \in AdminOnly => agent_calls[i].chat_mode = "admin"
    /\ \A sid \in SessionIds :
           ( /\ Answered(sid)
             /\ response.command_type \in AdminOnly
             /\ LastMsg(sid).mode = "user" )
           => ( /\ agent_calls = <<>>
                /\ response.status = "error"
                /\ response.error = "permission_denied" )

\* a session in USER mode has issued heal and was refused
C2_Witness ==
    \E sid \in SessionIds :
        /\ Answered(sid)
        /\ response.command_type = "heal"
        /\ LastMsg(sid).mode = "user"
        /\ response.error = "permission_denied"
        /\ agent_calls = <<>>

\* ------------------------------------------------------------------------
\* Properties of the RL healing agent
\* ------------------------------------------------------------------------
\* C3: an observe_reward call never raises the exploration rate and leaves
\* it at 0.05 or above, whatever rate the agent was created with.
C3_EpsilonNonIncreasing ==
    [][epsilon' <= epsilon /\ epsilon' >= EpsilonFloor]_vars

\* ------------------------------------------------------------------------
\* Properties of the workflows
\* ------------------------------------------------------------------------
InVisited(node) == \E i \in 1..Len(visited) : visited[i] = node

\* the node has appended an entry to state["errors"]
Recorded(node) ==
    \E i \in 1..Len(get(state, "errors", <<>>)) : state.errors[i].node = node

\* C4: the success flag a top-level call returns is true exactly when the
\* error list it returns is empty, and that list is the one the invocation
\* accumulated in its state.
C4_SuccessIffNoErrors ==
    api_result.api # "none" =>
        /\ api_result.success <=> (api_result.errors = <<>>)
        /\ api_result.errors = get(state, "errors", <<>>)

C4_Witness ==
    /\ api_result.api = "ask_question"
    /\ api_result.response_mode = "internal"
    /\ ~api_result.success
    /\ Len(api_result.errors) >= 2

\* C5: in the ingestion and retrieval workflows every failure of a node's
\* operation, raised or reported by the tool as unsuccessful, has an entry
\* of that node in state errors.
C5_FailuresRecorded ==
    graph \in {"ingestion", "retrieval"} =>
        \A f \in failed : Recorded(f.node)

\* the required input of a downstream ingestion stage is missing
InputMissing(node) ==
    CASE node = "save_vectordb" -> ~get(state, "chunks", NoChunks).success
      [] node = "update_tracking" -> ~get(state, "save_result", NoTool).success
      [] OTHER -> FALSE

\* C6: an ingestion stage whose required input is missing records its own
\* error, and the audit stage writes no COMPLETED tracking row for a document
\* whose chunks were not saved.
C6_DownstreamSkips ==
    graph = "ingestion" =>
        /\ \A node \in {"save_vectordb", "update_tracking"} :
               InVisited(node) /\ InputMissing(node) => Recorded(node)
        /\ \A i \in 1..Len(document_tracking) :
               /\ document_tracking[i].document_id = state.doc_id
               /\ document_tracking[i].ingestion_status = "COMPLETED"
               => get(state, "save_result", NoTool).success

\* C7: once check-optimization has run, the optimize node runs if and only if
\* should_optimize is true; when it is false the node after check-optimization
\* is the answer node.
C7_OptimizeIffShouldOptimize ==
    graph = "retrieval" /\ InVisited("check_optimization") =>
        /\ (InVisited("optimize_context") \/ pc = "optimize_context")
               <=> get(state, "should_optimize", FALSE)
        /\ visited[Len(visited)] = "check_optimization"
               /\ ~get(state, "should_optimize", FALSE)
               => pc = "answer_question"

C7_Witness ==
    /\ graph = "retrieval"
    /\ visited # <<>>
    /\ visited[Len(visited)] = "check_optimization"
    /\ ~get(state, "should_optimize", FALSE)
    /\ pc = "answer_question"

\* the order of the stages of each workflow
IngestionOrder ==
    <<"convert_markdown", "classify_document", "extract_metadata", "chunk_document",
      "save_vectordb", "update_tracking">>

RetrievalOrder ==
    <<"retrieve_context", "rerank_context", "check_optimization", "optimize_context",
      "answer_question", "validate_guardrails", "traceability">>

Position(order, node) ==
    IF \E i \in 1..Len(order) : order[i] = node
    THEN CHOOSE i \in 1..Len(order) : order[i] = node
    ELSE 0

\* the order without the optional optimize stage
WithoutOptimize(order) ==
    SelectSeq(order, LAMBDA n : n # "optimize_context")

\* C8: the nodes of one ingestion or retrieval invocation run in the compiled
\* order, each at most once, the next node lying after all that have run; a
\* finished invocation has run every stage, the optimize stage optionally.
C8_CompiledOrder ==
    graph \in {"ingestion", "retrieval"} =>
        LET order == IF graph = "ingestion" THEN IngestionOrder ELSE RetrievalOrder IN
        /\ \A i \in 1..Len(visited) : Position(order, visited[i]) > 0
        /\ \A i, j \in 1..Len(visited) :
               i < j => Position(order, visited[i]) < Position(order, visited[j])
        /\ pc \notin {"idle", "END"} =>
               /\ Position(order, pc) > 0
               /\ \A i \in 1..Len(visited) : Position(order, visited[i]) < Position(order, pc)
        /\ pc \in {"idle", "END"} =>
               \/ visited = order
               \/ graph = "retrieval" /\ visited = WithoutOptimize(order)

C8_Witness ==
    /\ graph = "retrieval"
    /\ pc = "END"
    /\ visited = RetrievalOrder

AllEdges(g) == Edges(g) \cup ConditionalEdges(g)

Nodes(g) == ({e[1] : e \in AllEdges(g)} \cup {e[2] : e \in AllEdges(g)}) \ {"START", "END"}

\* the nodes reachable from the set S along the edges of g
RECURSIVE ReachFrom(_, _)
ReachFrom(g, S) ==
    LET more == S \cup {e[2] : e \in {x \in AllEdges(g) : x[1] \in S}}
    IN IF more = S THEN S ELSE ReachFrom(g, more)

Connected(g) ==
    \A n \in Nodes(g) :
        /\ n \in ReachFrom(g, {"START"})
        /\ "END" \in ReachFrom(g, {n})

\* C9: in each compiled graph every node is reachable from START and END from
\* every node, no invocation runs more nodes than its graph has, and every
\* invocation that has begun reaches END.
C9_ReachesEnd ==
    /\ [](\A g \in Graphs : Connected(g))
    /\ [](graph \in Graphs => Len(visited) <= Cardinality(Nodes(graph)))
    /\ (pc # "idle") ~> (pc = "END")

C9_Witness ==
    /\ graph = "optimization"
    /\ pc = "END"
    /\ visited = <<"optimize", "apply_config">>

\* C10: when retrieval returned fewer than 3 chunks, check-optimization sets
\* should_optimize, a recommendation made by the agent is not SKIP, and the
\* optimize node is the next to run or has run.
C10_FewChunksOptimize ==
    /\ graph = "retrieval"
    /\ InVisited("check_optimization")
    /\ get(state, "context", NoTool).success
    /\ get(state, "context", NoTool).n < 3
    => /\ get(state, "should_optimize", FALSE)
       /\ get(state, "rl_action", "") # "SKIP"
       /\ InVisited("optimize_context") \/ pc = "optimize_context"

\* ------------------------------------------------------------------------
\* Properties of check-optimization and the guardrails
\* ------------------------------------------------------------------------
\* the healing agent is not consulted: it is absent, or no doc_id was given
AgentNotConsulted == ~agent_present \/ get(state, "doc_id", "") = ""

NumReranked == get(state, "reranked_context", NoTool).n

\* C11: when the healing agent is absent or not consulted, check-optimization
\* leaves quality = min(1, num_reranked / 5) and should_optimize true exactly
\* when quality < 0.6 or num_reranked < 3.
C11_FallbackRule ==
    graph = "retrieval" /\ InVisited("check_optimization") /\ AgentNotConsulted =>
        /\ state.retrieval_quality * 5 = Min(5, NumReranked) * Unit
        /\ state.should_optimize
               <=> (state.retrieval_quality * 10 < 6 * Unit \/ NumReranked < 3)

C11_Witness ==
    /\ graph = "retrieval"
    /\ InVisited("check_optimization")
    /\ AgentNotConsulted
    /\ NumReranked = 3
    /\ state.retrieval_quality * 10 = 6 * Unit
    /\ ~state.should_optimize

\* C12: an answer ask_question returns in concise or internal mode has been
\* through the guardrail sweep and is reported as such; in verbose mode the
\* guardrails are skipped.
C12_AnswersValidated ==
    api_result.api = "ask_question" =>
        /\ api_result.response_mode \in {"concise", "internal"} =>
               api_result.answer.filtered /\ api_result.guardrails_applied
        /\ api_result.response_mode = "verbose" =>
               ~api_result.answer.filtered /\ ~api_result.guardrails_applied

\* C13: ingest_document and ask_question return a result (they do not raise),
\* and the errors list of that result has an entry for every embedding, LLM,
\* vector-store or SQL failure of the invocation.
C13_ResultRecordsFailures ==
    api_result.api \in {"ingest_document", "ask_question"} =>
        \A f \in failed :
            \E i \in 1..Len(api_result.errors) : api_result.errors[i].node = f.node

\* ------------------------------------------------------------------------
\* Properties of the history log
\* ------------------------------------------------------------------------
\* C14: a log_query, log_healing or log_synthetic_test call leaves every
\* existing history event as it was and gives the event it appends an id
\* greater than the ids of all events appended before it.
C14_AppendOnly ==
    [][/\ Len(rag_history') >= Len(rag_history)
       /\ \A i \in 1..Len(rag_history) : rag_history'[i] = rag_history[i]
       /\ \A j \in (Len(rag_history) + 1)..Len(rag_history') :
              \A i \in 1..Len(rag_history) :
                  rag_history'[j].history_id > rag_history[i].history_id]_vars

C14_Witness ==
    /\ Len(rag_history) = 3
    /\ {rag_history[i].event_type : i \in 1..3} = {"QUERY", "HEAL", "SYNTHETIC_TEST"}
    /\ \A i \in 1..3 : rag_history[i].history_id = i

\* C15: the order in which get_session_history reads a session's events back
\* agrees with the order of their ids, whatever the interleaving of the
\* writers.
C15_ReadOrderIsIdOrder ==
    \A session_id \in LogSessions :
        LET h == get_session_history(session_id) IN
        \A i, j \in 1..Len(h) : i < j => h[i].history_id < h[j].history_id

\* C16: every QUERY history event with target_doc_id = D comes after an
\* ingestion of D (a row of the tracking table) or a HEAL event for D.
C16_QueryAfterIngestOrHeal ==
    \A i \in 1..Len(rag_history) :
        rag_history[i].event_type = "QUERY" =>
            \/ \E k \in 1..Len(document_tracking) :
                   document_tracking[k].document_id = rag_history[i].target_doc_id
            \/ \E j \in 1..(i - 1) :
                   /\ rag_history[j].event_type = "HEAL"
                   /\ rag_history[j].target_doc_id = rag_history[i].target_doc_id

\* ------------------------------------------------------------------------
\* Properties of doc_id generation
\* ------------------------------------------------------------------------
IngestedFiles(sid) ==
    IF sessions[sid].exists THEN sessions[sid].context.ingested_files ELSE <<>>

Observations(action) ==
    {i \in 1..Len(returned) :
        returned[i].call = "observe_reward" /\ returned[i].result.action_name = action}

RECURSIVE SumRewards(_)
SumRewards(obs) ==
    IF obs = {} THEN 0
    ELSE LET i == CHOOSE j \in obs : TRUE
         IN returned[i].result.actual_reward + SumRewards(obs \ {i})

\* C18: once the concurrent observe_reward calls have returned, no update is
\* lost: each action's count is the number of calls made for it and its
\* total_reward the sum of their rewards.
C18_NoLostUpdate ==
    (\A t \in ThreadIds : threads[t].pc = "idle") =>
        \A a \in ActionSet :
            /\ action_history[a].count = Cardinality(Observations(a))
            /\ action_history[a].total_reward = SumRewards(Observations(a))

LastObserved == returned'[Len(returned')].result.action_name

\* C20: after any sequence of observe_reward calls each action's count is the
\* number of observations of it, its total_reward the sum of their rewards
\* and its avg_reward their quotient (to the precision of the arithmetic);
\* one observation changes the entry of its own action only.
C20_StatsMatchObservations ==
    /\ [](\A a \in ActionSet :
              LET st == action_history[a] IN
              /\ st.count = Cardinality(Observations(a))
              /\ st.total_reward = SumRewards(Observations(a))
              /\ st.count = 0 => st.avg_reward = 0
              /\ 2 * (st.avg_reward * st.count - st.total_reward) <= st.count
              /\ 2 * (st.total_reward - st.avg_reward * st.count) <= st.count)
    /\ [][Len(returned') = Len(returned) + 1
          /\ \A a \in ActionSet \ {LastObserved} : action_history'[a] = action_history[a]]_vars

C20_Witness ==
    /\ Len(returned) = 3
    /\ action_history["OPTIMIZE"].count = 2
    /\ action_history["OPTIMIZE"].total_reward = 100000
    /\ action_history["OPTIMIZE"].avg_reward = 50000
    /\ action_history["SKIP"].count = 1
    /\ action_history["SKIP"].total_reward = -100000


\* C21: every observe_reward call appends exactly one HEAL event to the
\* history log, carrying the action, the reward, the action-history snapshot
\* and epsilon as they stand after the update, and the session id.
C21_OneHealEventPerObservation ==
    [][Len(returned') = Len(returned) + 1 =>
          LET call == returned'[Len(returned')].result IN
          /\ Len(rag_history') = Len(rag_history) + 1
          /\ SubSeq(rag_history', 1, Len(rag_history)) = rag_history
          /\ LET row == rag_history'[Len(rag_history')] IN
             /\ row.event_type = "HEAL"
             /\ row.action_taken = call.action_name
             /\ row.reward_signal = call.actual_reward
             /\ row.context.reward_achieved = call.actual_reward
             /\ row.context.q_values = action_history'
             /\ row.context.epsilon = epsilon'
             /\ row.session_id = "session_123"]_vars


\* ------------------------------------------------------------------------
\* Properties of greedy action selection
\* ------------------------------------------------------------------------
\* C22: after 100 reward observations in which OPTIMIZE is always rewarded
\* 0.2, RE_EMBED -0.1, SKIP 0 and REINDEX -0.05, the greedy choice for the
\* state (quality 0.55, average token cost 1500, reindex_count 0) is OPTIMIZE.
C22_ConvergesToOptimize ==
    total_decisions = ScenarioObservations => get_best_action(ScenarioState) = "OPTIMIZE"

\* the states a greedy choice is made for
GreedyStates ==
    {RLState(q, c, r) : q \in {(45 * Unit) \div 100, (55 * Unit) \div 100, (8 * Unit) \div 10},
                        c \in {500, 1500, 2500}, r \in {0, 3}}

\* C23: in greedy selection an action with zero observations takes the
\* neutral value 0.5 as its base score in place of an average reward, and the
\* state-conditional adjustment is added to that base as it is for an action
\* that has observations.
C23_ColdStartAdjusted ==
    \A a \in ActionSet, s \in GreedyStates :
        action_score(a, s) =
            (IF action_history[a].count = 0 THEN (5 * Unit) \div 10
             ELSE action_history[a].avg_reward) + adjustment(a, s)


\* ------------------------------------------------------------------------
\* Properties of the persistence of an ingestion
\* ------------------------------------------------------------------------
\* the vector-store entries of a document
VectorEntries(d) == {c \in vectordb : c.doc_id = d}

\* the tracking rows of a document
TrackingRowsOf(d) == {i \in 1..Len(document_tracking) : document_tracking[i].document_id = d}

\* ingest_document has returned for d, the only workflow run so far
IngestionFinished(d) ==
    /\ runs = 1
    /\ graph = "ingestion"
    /\ pc = "idle"
    /\ api_result.api = "ingest_document"
    /\ api_result.doc_id = d

\* C24: for ingestions and retrievals on distinct doc_ids, once the ingestion
\* of a doc_id has finished, the number of vector-store entries for it equals
\* the chunks_saved recorded for it in the tracking table.
C24_VectorCountIsTracked ==
    \A d \in IngestDocIds :
        IngestionFinished(d) =>
            /\ TrackingRowsOf(d) # {}
            /\ \A i \in TrackingRowsOf(d) :
                   document_tracking[i].chunks_saved = Cardinality(VectorEntries(d))

\* what is recorded is right whenever something is recorded
TrackedCountIsRight ==
    \A d \in IngestDocIds :
        IngestionFinished(d) =>
            \A i \in TrackingRowsOf(d) :
                document_tracking[i].chunks_saved = Cardinality(VectorEntries(d))

SkewedSave ==
    /\ graph = "ingestion" /\ pc = "save_vectordb"
    /\ vectordb' # vectordb
    /\ ~((vectordb' \ vectordb) \subseteq chunk_embedding_data')

\* C26: if the vector-store write of an ingestion succeeds and the
\* relational-store write then fails, the ingestion continues and is reported
\* successful, with chunks_saved equal to the number of vectors written and
\* no vector entry rolled back.
C26_SkewContinues ==
    /\ [][SkewedSave =>
              /\ vectordb \subseteq vectordb'
              /\ "save_result" \in state'.keys
              /\ state'.save_result.success
              /\ state'.save_result.n = Cardinality(vectordb' \ vectordb)
              /\ state'.errors = state.errors
              /\ pc' = "update_tracking"]_vars
    /\ [][(graph = "ingestion" /\ pc = "END" /\ pc' = "idle") =>
              /\ api_result'.chunks_saved = get(state, "save_result", NoTool).n
              /\ api_result'.success = (Len(get(state, "errors", <<>>)) = 0)
              /\ vectordb' = vectordb]_vars

C26_Witness ==
    /\ IngestionFinished("d1")
    /\ api_result.success
    /\ api_result.chunks_saved > 0
    /\ api_result.chunks_saved = Cardinality(VectorEntries("d1"))
    /\ \A c \in chunk_embedding_data : c.doc_id # "d1"


\* ------------------------------------------------------------------------
\* Properties of the command router
\* ------------------------------------------------------------------------
\* the route_command call that returns in this step
LastRouted == returned'[Len(returned')].result

\* C27: every temporary file created for a text ingestion is deleted once the
\* ingestion workflow has finished, whether the workflow succeeded, returned
\* an error or raised.
C27_TempFileDeleted ==
    [][(/\ Len(returned') = Len(returned) + 1
        /\ LastRouted.workflow \in WorkflowOutcomes
        /\ LastRouted.temp_file # NoFile)
       => LastRouted.temp_file \notin temp_files']_vars


\* ------------------------------------------------------------------------
\* Properties of the response object
\* ------------------------------------------------------------------------
\* the top-level fields of the concise response
ConciseFields ==
    {"success", "question", "answer", "session_id", "guardrails_applied", "errors"}

\* C28: the response object's fields are nested by response mode: every
\* top-level field of the concise response (success, question, answer,
\* session_id, guardrails_applied, errors) is present in the internal
\* response, and every field of the internal response is present in the
\* verbose response.
C28_FieldsNested ==
    api_result.api = "ask_question" =>
        /\ api_result.response_mode = "concise" => api_result.fields = ConciseFields
        /\ api_result.response_mode = "internal" => ConciseFields \subseteq api_result.fields
        /\ api_result.response_mode = "verbose" =>
               ask_question_fields("internal") \subseteq api_result.fields


\* ------------------------------------------------------------------------
\* Properties of the guardrails service
\* ------------------------------------------------------------------------
\* LOW < MEDIUM < HIGH < CRITICAL, below them no risk
Severity == [SAFE |-> 0, LOW |-> 1, MEDIUM |-> 2, HIGH |-> 3, CRITICAL |-> 4]

\* the risk levels of the violations the checks raised
ViolationRisks(checks) ==
    {checks[CheckTypes[i]].risk : i \in {j \in 1..Len(CheckTypes) : checks[CheckTypes[j]].risk # "NONE"}}

\* the validations that produced a classification
Validated ==
    {i \in 1..Len(returned) :
        returned[i].call = "validate_response" /\ ~returned[i].result.raised}

\* C29: the risk level that classifies a validated response is the maximum,
\* in the order LOW < MEDIUM < HIGH < CRITICAL, of the risk levels of all
\* violations raised for it; the response is classified as having no risk
\* only when no violation was raised.
C29_MaxRiskClassifies ==
    \A i \in Validated :
        LET r == returned[i].result
            risks == ViolationRisks(r.checks)
        IN
        /\ (r.max_risk_level = RiskLevel["SAFE"]) <=> (risks = {})
        /\ \A v \in risks :
               \E level \in DOMAIN RiskLevel :
                   /\ RiskLevel[level] = r.max_risk_level
                   /\ Severity[v] <= Severity[level]
        /\ risks # {} => \E v \in risks : RiskLevel[v] = r.max_risk_level

\* C30: each semantic guardrail (hallucination, accuracy, tone, completeness)
\* fails open: when the LLM's output cannot be parsed, the check reports at
\* most LOW risk and does not mark the response invalid.
C30_SemanticChecksFailOpen ==
    \A i \in Validated :
        LET r == returned[i].result IN
        \A k \in {"hallucination", "accuracy", "tone", "completeness"} :
            (r.has_llm /\ r.llm[k] = "unparseable") =>
                /\ r.checks[k].valid
                /\ r.checks[k].risk \in {"NONE", "LOW"}


\* ------------------------------------------------------------------------
\* Rejection of malformed commands
\* ------------------------------------------------------------------------
\* the arguments the command needs: doc_id and quality for heal, one
\* argument for the other multi-part commands
RequiredArgs(command_type) == IF command_type = "heal" THEN 2 ELSE 1

\* the command lacks a required argument: the argument is absent or is the
\* empty string
LacksArgument(command) ==
    \E i \in 1..RequiredArgs(command.command_type) :
        i > Len(command.args) \/ command.args[i] = <<>>

\* C31: a multi-part command that lacks a required argument is answered with
\* an error and makes no call of the agent.
C31_MalformedRejected ==
    \A sid \in SessionIds :
        ( /\ Answered(sid)
          /\ response.command_type \in MultiPart
          /\ LacksArgument(LastCmd(sid)) )
        => (response.status = "error" /\ agent_calls = <<>>)

\* an admin session sent `heal:` with a single argument, which is rejected
C31_HealRejected ==
    \E sid \in SessionIds :
        /\ Answered(sid)
        /\ response.command_type = "heal"
        /\ LastMsg(sid).mode = "admin"
        /\ LacksArgument(LastCmd(sid))
        /\ response.error = "missing_argument"


\* ------------------------------------------------------------------------
\* Ingestion results shown to the chat user
\* ------------------------------------------------------------------------
IngestCommands == {"ingest_file", "ingest_text", "ingest_table"}

\* the last response answers an ingest command of sid that reached the agent
IngestAnswered(sid) ==
    /\ Answered(sid)
    /\ response.command_type \in IngestCommands
    /\ agent_calls # <<>>

\* the doc_id of the last agent call is recorded in the session's context
IngestRecorded(sid) ==
    \/ sessions[sid].context.last_doc_id = agent_calls[1].doc_id
    \/ \E i \in 1..Len(sessions[sid].context.ingested_files) :
           sessions[sid].context.ingested_files[i].doc_id = agent_calls[1].doc_id

\* C37: an ingest command is answered with status success only if the
\* agent's result reports success, and the ingestion is recorded in the
\* session's ingested_files and last_doc_id only in that case.
C37_IngestSuccessIsAgentSuccess ==
    \A sid \in SessionIds :
        IngestAnswered(sid) =>
            /\ response.status = "success" => response.result = "success"
            /\ IngestRecorded(sid) => response.result = "success"

\* an ingestion whose agent call raised is answered with an error and is
\* not recorded
C37_RaisedIsError ==
    \E sid \in SessionIds :
        /\ IngestAnswered(sid)
        /\ response.error = "agent_raised"
        /\ response.status = "error"
        /\ ~IngestRecorded(sid)


\* ------------------------------------------------------------------------
\* Messages rejected by the parser
\* ------------------------------------------------------------------------
\* the texts ChatCommand.parse rejects
Rejected == { raw \in Messages : Parsed[raw].error # "none" }

\* C38: a process_message call on a text the parser rejects leaves the
\* session and every other session as they were (message history, command
\* history, chat mode, response mode, context), makes no call of the agent
\* and answers with an error.
C38_ParseErrorLeavesSession ==
    [][ \A raw \in Rejected, sid \in SessionIds :
            (process_message(raw, sid) /\ sessions[sid].exists)
            => /\ sessions' = sessions
               /\ doc_id_cache' = doc_id_cache
               /\ agent_calls' = <<>>
               /\ response'.status = "error" ]_vars

\* a session that holds history, a changed response mode and an ingested
\* document has had a message rejected with a parse error
C38_Witness ==
    \E sid \in SessionIds :
        /\ response.session_id = sid
        /\ response.error \in {"invalid_response_mode", "invalid_chat_mode"}
        /\ sessions[sid].message_history # <<>>
        /\ sessions[sid].command_history # <<>>


\* ------------------------------------------------------------------------
\* HEAL events of the optimize node
\* ------------------------------------------------------------------------
\* the optimize node runs in this step
OptimizeVisit == graph = "retrieval" /\ pc = "optimize_context" /\ pc' # pc

\* the row is a HEAL event as the optimize node writes it
IsOptimizeHeal(row) ==
    /\ row.event_type = "HEAL"
    /\ row.agent_id = "langgraph_agent"
    /\ row.action_taken # ""
    /\ row.metrics.improvement_delta = (15 * Unit) \div 100
    /\ row.reward_signal = (12 * Unit) \div 100

\* C33: every visit to the optimize node appends exactly one event to the
\* history log, a HEAL event with the action taken, improvement delta 0.15
\* and reward 0.12.
C33_OptimizeLogsHeal ==
    [][ OptimizeVisit =>
            /\ Len(rag_history') = Len(rag_history) + 1
            /\ SubSeq(rag_history', 1, Len(rag_history)) = rag_history
            /\ IsOptimizeHeal(rag_history'[Len(rag_history')]) ]_vars

\* the optimize node has run on the healing agent's recommendation and its
\* HEAL event is in the log
C33_LoggedOnRecommendation ==
    /\ InVisited("optimize_context")
    /\ get(state, "rl_action", "") \notin {"", "SKIP"}
    /\ get(state, "healing_logged_id", -1) > 0
    /\ \E i \in 1..Len(rag_history) : IsOptimizeHeal(rag_history[i])


\* ------------------------------------------------------------------------
\* The learning state during retrieval
\* ------------------------------------------------------------------------
\* a step of a retrieval invocation: its start, one of its nodes, its return
RetrievalStep == graph' = "retrieval" /\ (pc # "idle" \/ pc' # "idle")

\* an observe_reward call returns in this step
ObservationStep ==
    /\ Len(returned') = Len(returned) + 1
    /\ returned'[Len(returned')].call = "observe_reward"

\* C36: no step of a retrieval invocation changes an action's count,
\* total_reward or avg_reward or the exploration rate; they change only in a
\* step of observe_reward.
C36_RetrievalKeepsLearningState ==
    [][ /\ RetrievalStep => UNCHANGED <<epsilon, action_history>>
        /\ (epsilon' # epsilon \/ action_history' # action_history) => ObservationStep
      ]_vars

\* after a reward was observed, a retrieval that consulted the agent has
\* visited the optimize node, logged its HEAL event and returned
C36_Witness ==
    /\ \E a \in ActionSet : action_history[a].count > 0
    /\ epsilon < DefaultEpsilon
    /\ InVisited("optimize_context")
    /\ get(state, "healing_logged_id", -1) > 0
    /\ \E i \in 1..Len(rag_history) : IsOptimizeHeal(rag_history[i])
    /\ api_result.api = "ask_question"
    /\ pc = "idle"


\* ------------------------------------------------------------------------
\* Determinism of routing
\* ------------------------------------------------------------------------
\* the nodes the graph can go to after check-optimization when the random
\* generator yields u and choice
RouteAfterCheck(u, choice, db_ok) ==
    Successors(graph, "check_optimization",
               check_optimization_needed(state, agent_present, u, choice, db_ok))

\* C34: whenever check-optimization is about to run, the node that follows
\* it is determined by the input, the store and the agent's statistics: it
\* is the same for every value the random generator can yield.
C34_RoutingDeterministic ==
    (graph = "retrieval" /\ pc = "check_optimization") =>
        \A db_ok \in BOOLEAN :
        \A u1 \in RandomDraws, u2 \in RandomDraws :
        \A choice1 \in ActionSet, choice2 \in ActionSet :
            RouteAfterCheck(u1, choice1, db_ok) = RouteAfterCheck(u2, choice2, db_ok)


\* ------------------------------------------------------------------------
\* Retrieval tools: reranking and traceability (retrieval_tools.py)
\* ------------------------------------------------------------------------
MaxItems == 2

\* ChromaDB distances of the retrieved chunks: 0, 0.25, 1.5
Distances == {0, 250000, 1500000}

\* lengths of the chunk texts, in characters
TextLengths == {40, 100, 140}

\* a text is known by the chunk it is the text of and by its length
Text(doc_id, chunk_index, len) == [doc_id |-> doc_id, chunk_index |-> chunk_index, len |-> len]

\* an item of the list retrieve_context_tool returns
ContextItem(doc_id, chunk_index, len, distance) ==
    [text |-> Text(doc_id, chunk_index, len), score |-> distance,
     metadata |-> [doc_id |-> doc_id, chunk_index |-> chunk_index]]

ContextItems ==
    { ContextItem(d, c, l, s) : d \in {"d0", "d1"}, c \in {0, 1}, l \in TextLengths,
                                s \in Distances }

ContextLists == UNION { [1..n -> ContextItems] : n \in 0..MaxItems }

\* round(x, 3)
round3(x) == RoundDiv(x, Unit \div 1000) * (Unit \div 1000)

\* the item rerank_context_tool builds from a retrieved item: text and
\* metadata, the scores inside the metadata
reranked_item(item) ==
    LET similarity_score == Max(0, Unit - item.score)
        length_score == Min(Unit, (item.text.len * Unit) \div 500)
        relevance_score ==
            Max(0, Min(Unit, (7 * similarity_score + 3 * length_score) \div 10))
    IN [text |-> item.text,
        metadata |-> [doc_id |-> item.metadata.doc_id,
                      chunk_index |-> item.metadata.chunk_index,
                      relevance_score |-> round3(relevance_score),
                      similarity_score |-> round3(similarity_score),
                      original_distance |-> round3(item.score),
                      text_length |-> item.text.len]]

RECURSIVE InsertByRelevance(_, _)
InsertByRelevance(x, s) ==
    IF s = <<>> THEN << x >>
    ELSE IF Head(s).metadata.relevance_score >= x.metadata.relevance_score
    THEN << Head(s) >> \o InsertByRelevance(x, Tail(s))
    ELSE << x >> \o s

\* list.sort(key=relevance_score, reverse=True): stable, highest first
RECURSIVE SortByRelevance(_)
SortByRelevance(s) ==
    IF s = <<>> THEN <<>>
    ELSE InsertByRelevance(s[Len(s)], SortByRelevance(SubSeq(s, 1, Len(s) - 1)))

rerank_context_tool(context_items) ==
    SortByRelevance([i \in 1..Len(context_items) |-> reranked_item(context_items[i])])

\* c.get('score', 0)
item_score(c) == IF "score" \in DOMAIN c THEN c.score ELSE 0

\* (c['text'][:100] + "...") if len(c['text']) > 100 else c['text']
text_preview(text) ==
    [of |-> [doc_id |-> text.doc_id, chunk_index |-> text.chunk_index],
     chars |-> Min(100, text.len), ellipsis |-> text.len > 100]

traceability_tool(context_texts) ==
    [sources_used |-> Len(context_texts),
     documents |-> [i \in 1..Len(context_texts) |->
                       [doc_id |-> context_texts[i].metadata.doc_id,
                        chunk_index |-> context_texts[i].metadata.chunk_index,
                        similarity_score |-> item_score(context_texts[i]),
                        text_preview |-> text_preview(context_texts[i].text)]]]

\* rerank_context_node followed by traceability_node on a retrieved context
TraceContext ==
    /\ returned = <<>>
    /\ \E context \in ContextLists :
           LET reranked == rerank_context_tool(context) IN
           returned' = << Returned("caller", "traceability_tool",
                                   [context |-> context, reranked |-> reranked,
                                    trace |-> traceability_tool(reranked)]) >>
    /\ UNCHANGED <<chatVars, rlVars, flowVars, threads, clock>>

SpecTrace == Init /\ [][TraceContext]_vars

\* the traces produced
Traced == { i \in 1..Len(returned) : returned[i].call = "traceability_tool" }

\* the scores the item obtained in retrieval and reranking
ItemScores(item) ==
    {item.metadata.similarity_score, item.metadata.relevance_score,
     item.metadata.original_distance}

\* the entry mirrors the reranked item
Mirrors(entry, item) ==
    /\ entry.doc_id = item.metadata.doc_id
    /\ entry.chunk_index = item.metadata.chunk_index
    /\ entry.similarity_score \in ItemScores(item)
    /\ entry.text_preview.of = [doc_id |-> item.text.doc_id,
                                chunk_index |-> item.text.chunk_index]
    /\ entry.text_preview.chars = Min(100, item.text.len)

\* C35: the provenance record has one entry per reranked source, and each
\* entry's doc_id, chunk_index, similarity score and text preview are those
\* of the corresponding reranked item.
C35_TraceMirrorsReranked ==
    \A i \in Traced :
        LET r == returned[i].result IN
        /\ r.trace.sources_used = Len(r.reranked)
        /\ Len(r.trace.documents) = Len(r.reranked)
        /\ \A j \in 1..Len(r.reranked) : Mirrors(r.trace.documents[j], r.reranked[j])

\* everything but the similarity score is mirrored, for two items that
\* reranking has reordered
C35_MirroredButScore ==
    \E i \in Traced :
        LET r == returned[i].result IN
        /\ Len(r.reranked) = 2
        /\ r.reranked[1].text = r.context[2].text
        /\ r.reranked[1].text # r.reranked[2].text
        /\ \A j \in 1..2 :
               Mirrors([r.trace.documents[j] EXCEPT
                            !.similarity_score = r.reranked[j].metadata.similarity_score],
                       r.reranked[j])
        /\ \E j \in 1..2 : r.trace.documents[j].similarity_score \notin ItemScores(r.reranked[j])


\* ------------------------------------------------------------------------
\* The command-line program (langgraph_rag_agent.py, __main__)
\* ------------------------------------------------------------------------
\* the operation group of the argument parser (one is required)
Operations == {"chat", "ask", "ingest_table", "ingest_path"}

\* LangGraphRAGAgent() returns, raises, or the user interrupts it
InitOutcomes == {"ok", "raise", "interrupt"}

\* agent.invoke returns a result whose success flag is true or false,
\* raises, or the user interrupts it; the chat result carries no success
\* flag
InvokeOutcomes(operation) ==
    IF operation = "chat" THEN {"success", "raise", "interrupt"}
    ELSE {"success", "failure", "raise", "interrupt"}

\* the code the try block of __main__ ends with
exit_code(init, outcome) ==
    IF init = "interrupt" THEN 0
    ELSE IF init = "raise" THEN 1
    ELSE IF outcome = "interrupt" THEN 0
    ELSE IF outcome = "raise" THEN 1
    ELSE 0

\* one run of the program
Main ==
    /\ returned = <<>>
    /\ \E operation \in Operations, mode \in ResponseMode, no_history \in BOOLEAN,
          init \in InitOutcomes :
       \E outcome \in (IF init = "ok" THEN InvokeOutcomes(operation) ELSE {"none"}) :
           returned' = << Returned("caller", "main",
                                   [operation |-> operation, mode |-> mode,
                                    no_history |-> no_history, init |-> init,
                                    outcome |-> outcome,
                                    exit_code |-> exit_code(init, outcome)]) >>
    /\ UNCHANGED <<chatVars, rlVars, flowVars, threads, clock>>

SpecMain == Init /\ [][Main]_vars

\* the runs of the program
MainRuns == { i \in 1..Len(returned) : returned[i].call = "main" }

\* how the run went
Interrupted(r) == "interrupt" \in {r.init, r.outcome}

Failed(r) == ~Interrupted(r) /\ ("raise" \in {r.init, r.outcome} \/ r.outcome = "failure")

Succeeded(r) == r.init = "ok" /\ r.outcome = "success"

\* C32: the program exits with code 0 when the operation succeeded, with
\* code 1 when it failed and with code 130 when the user interrupted it.
C32_ExitCodes ==
    \A i \in MainRuns :
        LET r == returned[i].result IN
        /\ Succeeded(r) => r.exit_code = 0
        /\ Failed(r) => r.exit_code = 1
        /\ Interrupted(r) => r.exit_code = 130

\* a successful run exits with 0 and a run that raised exits with 1
C32_SuccessAndRaise ==
    \A i \in MainRuns :
        LET r == returned[i].result IN
        /\ Succeeded(r) => r.exit_code = 0
        /\ "raise" \in {r.init, r.outcome} /\ ~Interrupted(r) => r.exit_code = 1


\* ------------------------------------------------------------------------
\* The clustering data pipeline (clusterer/langgraph_orchestrator.py)
\* ------------------------------------------------------------------------
\* "max_iterations": 3 of the initial state
MaxIterations == 3

\* the loop-backs counted (the count stays at this value once it is reached)
MaxLoopBacks == 4

\* best_silhouette an agent reports: 0.2, 0.4, 0.6
Silhouettes == {200000, 400000, 600000}

\* quality_score the cleaning agent reports: 0.5, 0.9
QualityScores == {500000, 900000}

\* what a stage agent's execute can do
StageOutcomes(stage) ==
    CASE stage = "data_acquisition" -> {[raised |-> FALSE, value |-> 500000]}
      [] stage \in {"clustering", "evaluation"} ->
            {[raised |-> FALSE, value |-> s] : s \in Silhouettes}
      [] stage = "normalization" -> {[raised |-> FALSE, value |-> v] : v \in {0, 1}}
      [] stage = "data_cleaning" -> {[raised |-> FALSE, value |-> q] : q \in QualityScores}

Raises == [raised |-> TRUE, value |-> 0]

\* GraphState as run() builds it; the errors list is kept as last_error, and
\* loop_backs counts the refinement edges taken
pipeline_initial_state(hitl_enabled) ==
    [hitl_enabled |-> hitl_enabled, current_stage |-> "start",
     iteration_count |-> 0, max_iterations |-> MaxIterations,
     data_quality_score |-> 0, schema_validity |-> FALSE, clustering_silhouette |-> 0,
     proceed_to_next |-> TRUE, requires_refinement |-> FALSE, hitl_approval |-> "None",
     last_error |-> "None", loop_backs |-> 0]

node_data_acquisition(st, o) ==
    IF o.raised
    THEN [st EXCEPT !.current_stage = "data_acquisition", !.proceed_to_next = FALSE,
                    !.last_error = "data_acquisition"]
    ELSE [st EXCEPT !.current_stage = "data_acquisition", !.data_quality_score = o.value,
                    !.proceed_to_next = TRUE]

node_clustering(st, o) ==
    IF o.raised
    THEN [st EXCEPT !.current_stage = "clustering", !.requires_refinement = TRUE,
                    !.last_error = "clustering"]
    ELSE [st EXCEPT !.current_stage = "clustering", !.clustering_silhouette = o.value,
                    !.iteration_count = @ + 1,
                    !.requires_refinement = (o.value < (5 * Unit) \div 10)]

node_normalization(st, o) ==
    IF o.raised
    THEN [st EXCEPT !.current_stage = "normalization", !.requires_refinement = TRUE,
                    !.last_error = "normalization"]
    ELSE [st EXCEPT !.current_stage = "normalization", !.schema_validity = (o.value = 1),
                    !.iteration_count = @ + 1,
                    !.requires_refinement = (o.value # 1)]

node_data_cleaning(st, o) ==
    IF o.raised
    THEN [st EXCEPT !.current_stage = "data_cleaning", !.requires_refinement = TRUE,
                    !.last_error = "data_cleaning"]
    ELSE [st EXCEPT !.current_stage = "data_cleaning", !.data_quality_score = o.value,
                    !.iteration_count = @ + 1,
                    !.requires_refinement = (o.value < (85 * Unit) \div 100)]

node_evaluation(st, o) ==
    IF o.raised
    THEN [st EXCEPT !.current_stage = "evaluation", !.last_error = "evaluation"]
    ELSE [st EXCEPT !.current_stage = "evaluation", !.clustering_silhouette = o.value]

Stages == {"data_acquisition", "clustering", "normalization", "data_cleaning", "evaluation"}

Checkpoints ==
    {"hitl_clustering_validation", "hitl_schema_validation", "hitl_data_quality_gate",
     "hitl_model_acceptance"}

node_stage(stage, st, o) ==
    CASE stage = "data_acquisition" -> node_data_acquisition(st, o)
      [] stage = "clustering" -> node_clustering(st, o)
      [] stage = "normalization" -> node_normalization(st, o)
      [] stage = "data_cleaning" -> node_data_cleaning(st, o)
      [] stage = "evaluation" -> node_evaluation(st, o)

\* the four HITL nodes: the approval each of them writes
node_hitl(checkpoint, st) ==
    LET approval ==
            IF ~st.hitl_enabled THEN TRUE
            ELSE CASE checkpoint = "hitl_clustering_validation" ->
                          st.clustering_silhouette > (3 * Unit) \div 10
                   [] checkpoint = "hitl_schema_validation" -> st.schema_validity
                   [] checkpoint = "hitl_data_quality_gate" ->
                          st.data_quality_score > (85 * Unit) \div 100
                   [] checkpoint = "hitl_model_acceptance" ->
                          st.clustering_silhouette > (5 * Unit) \div 10
    IN [st EXCEPT !.hitl_approval = IF approval THEN "True" ELSE "False"]

\* _route_after_clustering_validation and its three siblings, which differ
\* in the name they return while the approval is None
route_after_validation(checkpoint, st) ==
    IF st.hitl_approval = "None" THEN checkpoint
    ELSE IF st.hitl_approval = "True" THEN "approved"
    ELSE IF st.iteration_count < st.max_iterations THEN "refinement"
    ELSE "rejected"

\* the mappings of add_conditional_edges
pipeline_conditional_edges ==
    [hitl_clustering_validation |->
         [approved |-> "normalization", refinement |-> "clustering", rejected |-> "END"],
     hitl_schema_validation |->
         [approved |-> "data_cleaning", refinement |-> "normalization", rejected |-> "END"],
     hitl_data_quality_gate |->
         [approved |-> "evaluation", refinement |-> "data_cleaning", rejected |-> "END"],
     hitl_model_acceptance |->
         [approved |-> "END", refinement |-> "clustering", rejected |-> "END"]]

\* add_edge
pipeline_edges ==
    { <<"START", "data_acquisition">>, <<"data_acquisition", "clustering">>,
      <<"clustering", "hitl_clustering_validation">>,
      <<"hitl_clustering_validation", "normalization">>,
      <<"normalization", "hitl_schema_validation">>,
      <<"data_cleaning", "hitl_data_quality_gate">>,
      <<"evaluation", "hitl_model_acceptance">> }

\* what follows a node. A checkpoint that has a plain edge beside its
\* conditional ones (hitl_clustering_validation) triggers both targets: the
\* run goes on with the plain edge's target when the route ends the run, and
\* when the two targets differ they run in one step and both write
\* current_stage, which the graph library either rejects (the invocation
\* raises) or resolves in favour of the routed node
pipeline_successors(node, st) ==
    LET plain == { e[2] : e \in { f \in pipeline_edges : f[1] = node } }
        route == route_after_validation(node, st)
        routed == IF node \in Checkpoints
                  THEN { pipeline_conditional_edges[node][route] } ELSE {}
    IN
    IF routed = {} \/ plain = {} \/ plain = routed THEN plain \cup routed
    ELSE IF routed = {"END"} THEN plain \cup routed
    ELSE routed \cup {"raised"}

\* pipeline.run: graph.invoke(initial_state)
PipelineRun ==
    /\ pc = "idle" /\ graph = "none"
    /\ \E hitl_enabled \in BOOLEAN :
           state' = pipeline_initial_state(hitl_enabled)
    /\ graph' = "pipeline"
    /\ pc' \in pipeline_successors("START", state')
    /\ UNCHANGED <<chatVars, rlVars, visited, failed, api_result, runs, agent_present,
                   storeVars, concVars>>

\* a stage node runs
PipelineStage ==
    /\ graph = "pipeline" /\ pc \in Stages
    /\ \E o \in StageOutcomes(pc) \cup {Raises} :
           /\ state' = node_stage(pc, state, o)
           /\ pc' \in pipeline_successors(pc, state')
    /\ UNCHANGED <<chatVars, rlVars, graph, visited, failed, api_result, runs, agent_present,
                   storeVars, concVars>>

\* a HITL checkpoint runs and the graph routes
PipelineCheckpoint ==
    /\ graph = "pipeline" /\ pc \in Checkpoints
    /\ LET st == node_hitl(pc, state)
           loops == route_after_validation(pc, st) = "refinement"
       IN /\ pc' \in pipeline_successors(pc, st)
          /\ state' = [st EXCEPT !.loop_backs =
                                     IF loops /\ pc' # "raised"
                                     THEN Min(MaxLoopBacks, @ + 1) ELSE @]
    /\ UNCHANGED <<chatVars, rlVars, graph, visited, failed, api_result, runs, agent_present,
                   storeVars, concVars>>

PipelineNode == PipelineStage \/ PipelineCheckpoint

SpecPipelineNext == PipelineRun \/ PipelineNode

SpecPipeline == Init /\ [][SpecPipelineNext]_vars

\* graph.invoke runs the next node until the run ends
SpecPipelineFair == SpecPipeline /\ WF_vars(PipelineNode)

\* C39: in every run of the pipeline graph the number of refinement
\* loop-backs is at most max_iterations, and the run reaches END.
C39_PipelineTerminates ==
    /\ [](graph = "pipeline" => state.loop_backs <= state.max_iterations)
    /\ (graph = "pipeline") ~> (pc = "END")

\* a refinement edge is taken only while iteration_count < max_iterations
C39_LoopBackGuarded ==
    [][ (graph = "pipeline" /\ pc \in Checkpoints /\ pc' \in Stages
         /\ state'.loop_backs # state.loop_backs)
        => state.iteration_count < state.max_iterations ]_vars

====
